---- MODULE Spec2Model ----
(***************************************************************************)
(* A model of Snotra: the history store (snotra-core/src/history.rs), the  *)
(* background index build of the Tauri shell (src-tauri/src), the index    *)
(* cache, the binary file envelope, the window placement file and search.  *)
(*                                                                         *)
(* SpecHistory drives one HistoryStore through load, record_launch and     *)
(* record_folder_expansion, with the process allowed to stop between any   *)
(* two filesystem operations of save.                                      *)
(*                                                                         *)
(* SpecIndex drives the Tauri shell's AppState: the handlers that run on   *)
(* the main thread (save_config, rebuild_index, the settings window's      *)
(* close event, search and get_history_results) interleaved with the steps *)
(* of the index-build threads that start_index_build spawns.               *)
(*                                                                         *)
(* SpecCache drives the index cache (src/indexer.rs): load_or_scan and     *)
(* rebuild_and_save over the index.bin an earlier run left.                *)
(*                                                                         *)
(* SpecBinfmt drives the envelope of the binary files (binfmt.rs): a       *)
(* payload is serialized, the bytes are cut short or changed, and the      *)
(* result is deserialized under a magic and a version.                     *)
(*                                                                         *)
(* SpecWindow drives the window placement file (window_data.rs) through    *)
(* load_state and the save_* functions, from files of every version.       *)
(*                                                                         *)
(* SpecSearch drives SearchEngine::search (search.rs) over a catalog and a *)
(* history, for queries, modes and result limits.                          *)
(*                                                                         *)
(* SpecFolder drives list_folder (folder.rs) over directories that can and *)
(* cannot be read; SpecScan drives scan_all (src/indexer.rs) over small    *)
(* file systems.                                                           *)
(*                                                                         *)
(* SpecUi drives the search window of the two desktop shells, the Win32    *)
(* one (src/window.rs with the callbacks of src/main.rs) and the egui one  *)
(* (src/app.rs), through edits, selection moves, folder browsing, Enter,   *)
(* show, hide and completed rebuilds.                                      *)
(***************************************************************************)
EXTENDS Integers, Sequences, FiniteSets, TLC

VARIABLES
    data,       \* HistoryStore.data: [global, query, folder_expansion]
    top_n,      \* HistoryStore.top_n
    proc,       \* "down" | "up" | "panicked": the process holding the store
    disk,       \* [real, tmp]: history.bin and history.bin.tmp
    ops,        \* number of record_* calls made so far
    last,       \* what the most recent call did (history of the run, not program state)
    indexing,               \* AppState.indexing
    index_build_started,    \* AppState.index_build_started
    config,                 \* AppState.config: the settings a scan depends on
    engine,                 \* AppState.engine: the SearchEngine's entries
    workers,                \* the index-build threads spawned so far, by number
    cmd,                    \* the search / get_history_results command on the main thread
    req,                    \* the last request to build (history of the run)
    index_bin,  \* the index cache file of the desktop shell, index.bin
    scanned,    \* what the last load_or_scan / rebuild_and_save did
    codec,      \* a call of serialize_with_header / deserialize_with_header
    window_bin, \* the window placement file, window.bin
    loaded,     \* what the last load_state returned
    found,      \* a SearchEngine, a history, and the last call of search / recent_history
    listed,     \* a directory and the last call of list_folder on it
    tree,       \* the scan rules, the file system under them, and the last scan_all
    ui          \* the search window of the desktop shell (app.rs, window.rs)

hvars == <<data, top_n, proc, disk, ops, last>>

ivars == <<indexing, index_build_started, config, engine, workers, cmd, req>>

cvars == <<index_bin, scanned>>

bvars == <<codec>>

wvars == <<window_bin, loaded>>

svars == <<found>>

fvars == <<listed>>

tvars == <<tree>>

uvars == <<ui>>

nvars == <<fvars, tvars, uvars>>

\* The variables of the other components, which an action of one leaves alone
xvars == <<cvars, bvars, wvars, svars, nvars>>

vars == <<hvars, ivars, xvars>>

---------------------------------------------------------------------------
(* Bounds of the model *)

MaxOps == 1
MaxTime == 1
MaxTopN == 2
MaxBuilds == 2
MaxConfig == 1
MaxEntries == 2

(* Program constants *)

HISTORY_VERSION == 1

\* A u32 is kept as two 16-bit limbs <<hi, lo>>, its value hi * 2^16 + lo:
\* TLC's integers end at 2^31 - 1.
LimbMod == 65536

U32(n) == <<n \div LimbMod, n % LimbMod>>

U32Max == <<LimbMod - 1, LimbMod - 1>>

U32Geq(x, y) == x[1] > y[1] \/ (x[1] = y[1] /\ x[2] >= y[2])

\* x + y for a y below 2^16: the sum's limbs, and whether it passed u32::MAX
U32Sum(x, y) ==
    LET lo == x[2] + y
        hi == x[1] + (lo \div LimbMod)
    IN  [limbs |-> <<hi % LimbMod, lo % LimbMod>>, overflow |-> hi >= LimbMod]

HISTORY_MAGIC == <<72, 73, 83, 84>>

---------------------------------------------------------------------------
(* Maps (HashMap): functions whose domain is the set of keys present *)

EmptyMap == [k \in {} |-> 0]

Put(m, k, v) == [x \in (DOMAIN m) \cup {k} |-> IF x = k THEN v ELSE m[x]]

Restrict(m, S) == [x \in S |-> m[x]]

Get(m, k, default) == IF k \in DOMAIN m THEN m[k] ELSE default

---------------------------------------------------------------------------
(* query.rs: normalize_query. A string is a sequence of characters. *)

IsWhitespace(ch) == ch \in {" ", "\t"}

ToLowercase(ch) ==
    CASE ch = "A" -> "a"
      [] ch = "B" -> "b"
      [] ch = "S" -> "s"
      [] ch = "P" -> "p"
      [] ch = "E" -> "e"
      [] ch = "X" -> "x"
      [] OTHER -> ch

RECURSIVE TrimStart(_)
TrimStart(s) ==
    IF s = <<>> THEN <<>>
    ELSE IF IsWhitespace(Head(s)) THEN TrimStart(Tail(s))
    ELSE s

RECURSIVE TrimEnd(_)
TrimEnd(s) ==
    IF s = <<>> THEN <<>>
    ELSE IF IsWhitespace(s[Len(s)]) THEN TrimEnd(SubSeq(s, 1, Len(s) - 1))
    ELSE s

Trim(s) == TrimEnd(TrimStart(s))

\* The loop of normalize_query over the trimmed characters, from position i,
\* with the accumulated output and the prev_space flag.
RECURSIVE NormalizeLoop(_, _, _, _)
NormalizeLoop(s, i, out, prev_space) ==
    IF i > Len(s) THEN out
    ELSE IF IsWhitespace(s[i])
         THEN IF ~prev_space
              THEN NormalizeLoop(s, i + 1, Append(out, " "), TRUE)
              ELSE NormalizeLoop(s, i + 1, out, prev_space)
         ELSE NormalizeLoop(s, i + 1, Append(out, ToLowercase(s[i])), FALSE)

\* normalize_query without the trim
normalize_query_NoTrim(q) == NormalizeLoop(q, 1, <<>>, FALSE)

normalize_query(q) == NormalizeLoop(Trim(q), 1, <<>>, FALSE)

---------------------------------------------------------------------------
(* Inputs *)

Paths == {"low", "med", "high"}

Folders == {"d1", "d2"}

RawQueries ==
    { <<>>,
      <<" ">>,
      <<"a">>,
      <<" ", "A", "\t">>,
      <<"a", " ", "\t", "B">> }

Times == 0..MaxTime

\* top_n_history as the settings dialog accepts it: at least one entry is kept
TopNs == 1..MaxTopN

---------------------------------------------------------------------------
(* history.rs: HistoryData and the read accessors *)

EmptyData == [global |-> EmptyMap, query |-> EmptyMap, folder_expansion |-> EmptyMap]

GlobalEntry(c, t) == [launch_count |-> c, last_launched |-> t]

global_count(d, path) == Get(d.global, path, GlobalEntry(U32(0), 0)).launch_count

query_count(d, query, path) ==
    LET norm_query == normalize_query(query)
    IN  IF norm_query \in DOMAIN d.query
        THEN Get(d.query[norm_query], path, U32(0))
        ELSE U32(0)

\* Option<u64>: <<>> is None, <<t>> is Some(t)
last_launched(d, path) ==
    IF path \in DOMAIN d.global THEN <<d.global[path].last_launched>> ELSE <<>>

folder_expansion_count(d, folder_path) == Get(d.folder_expansion, folder_path, U32(0))

\* u32::saturating_add
saturating_add(x, y) == IF U32Sum(x, y).overflow THEN U32Max ELSE U32Sum(x, y).limbs

\* u32 `+=` without overflow checks (release profile)
wrapping_add(x, y) == U32Sum(x, y).limbs

---------------------------------------------------------------------------
(* history.rs: record_launch and record_folder_expansion up to the call of save *)

\* Lines 91-104. `overflow` tells that the unchecked `+= 1` of the per-query tally
\* met u32::MAX: a build with overflow checks (the debug profile) panics there,
\* one without (the release profile) wraps; `data` is what the latter leaves.
record_launch_mutate_RawKey(d, path, query, now) ==
    LET entry == GlobalEntry(saturating_add(global_count(d, path), 1), now)
        g == Put(d.global, path, entry)
        app_map == Get(d.query, query, EmptyMap)
        old == Get(app_map, path, U32(0))
    IN  [ data |-> [d EXCEPT !.global = g,
                             !.query = Put(d.query, query,
                                           Put(app_map, path, wrapping_add(old, 1)))],
          overflow |-> (old = U32Max) ]

record_launch_mutate(d, path, query, now) ==
    LET entry == GlobalEntry(saturating_add(global_count(d, path), 1), now)
        g == Put(d.global, path, entry)
        norm_query == normalize_query(query)
        app_map == Get(d.query, norm_query, EmptyMap)
        old == Get(app_map, path, U32(0))
    IN  IF norm_query # <<>>
        THEN [ data |-> [d EXCEPT !.global = g,
                                  !.query = Put(d.query, norm_query,
                                                Put(app_map, path, wrapping_add(old, 1)))],
               overflow |-> (old = U32Max) ]
        ELSE [ data |-> [d EXCEPT !.global = g], overflow |-> FALSE ]

\* Lines 145-149, with the same unchecked `+= 1`.
record_folder_expansion_mutate(d, folder_path) ==
    LET old == folder_expansion_count(d, folder_path)
    IN  [ data |-> [d EXCEPT !.folder_expansion =
                        Put(d.folder_expansion, folder_path, wrapping_add(old, 1))],
          overflow |-> (old = U32Max) ]

---------------------------------------------------------------------------
(* history.rs: prune *)

\* GlobalSurvivors with the comparison of sort_by reversed (a.cmp(b)): the
\* entries with the smallest counts survive.
GlobalSurvivors_Ascending(g, n) ==
    { S \in SUBSET (DOMAIN g) :
        /\ Cardinality(S) = n
        /\ \A k \in S : \A j \in (DOMAIN g) \ S :
              U32Geq(g[j].launch_count, g[k].launch_count) }

\* drain, sort_by launch_count descending (a stable sort of the HashMap's
\* iteration order, which is arbitrary), truncate(top_n): every set of top_n keys
\* none of which has a smaller count than a key left out can come out.
GlobalSurvivors(g, n) ==
    { S \in SUBSET (DOMAIN g) :
        /\ Cardinality(S) = n
        /\ \A k \in S : \A j \in (DOMAIN g) \ S :
              U32Geq(g[k].launch_count, g[j].launch_count) }

\* RetainQuery with the retain of lines 174-177 left out
RetainQuery_NoRetain(q, surviving) == q

\* query.retain: keep the tallies of surviving paths, drop the maps left empty
RetainQuery(q, surviving) ==
    LET kept(k) == (DOMAIN q[k]) \cap surviving
    IN  [ k \in { k \in DOMAIN q : kept(k) # {} } |-> Restrict(q[k], kept(k)) ]

\* FolderSurvivors with truncate(top_n) left out
FolderSurvivors_NoTruncate(f, n) == { DOMAIN f }

FolderSurvivors(f, n) ==
    { S \in SUBSET (DOMAIN f) :
        /\ Cardinality(S) = n
        /\ \A k \in S : \A j \in (DOMAIN f) \ S : U32Geq(f[k], f[j]) }

\* The set of results prune can leave (one per iteration order of the maps).
prune(d, n) ==
    LET AfterGlobal ==
            IF Cardinality(DOMAIN d.global) > n
            THEN { [d EXCEPT !.global = Restrict(d.global, S),
                             !.query = RetainQuery(d.query, S)]
                   : S \in GlobalSurvivors(d.global, n) }
            ELSE { d }
        AfterFolder(x) ==
            IF Cardinality(DOMAIN x.folder_expansion) > n
            THEN { [x EXCEPT !.folder_expansion = Restrict(x.folder_expansion, S)]
                   : S \in FolderSurvivors(x.folder_expansion, n) }
            ELSE { x }
    IN  UNION { AfterFolder(x) : x \in AfterGlobal }

---------------------------------------------------------------------------
(* binfmt.rs: the envelope, byte by byte *)

HEADER_LEN == 8

\* The four bytes of a u32, most significant first
to_be_bytes(x) == <<x[1] \div 256, x[1] % 256, x[2] \div 256, x[2] % 256>>

\* u32::to_le_bytes of a u32 kept as <<hi, lo>>
to_le_bytes(x) == <<x[2] % 256, x[2] \div 256, x[1] % 256, x[1] \div 256>>

\* u32::from_le_bytes
from_le_bytes(b) == <<b[4] * 256 + b[3], b[2] * 256 + b[1]>>

\* i32 values are kept small; their four bytes are those of the value mod 2^32
I32Bytes(n) == to_le_bytes(<<(n \div LimbMod) % LimbMod, n % LimbMod>>)

I32OfBytes(b) ==
    LET u == from_le_bytes(b)
    IN  IF u[1] >= LimbMod \div 2
        THEN (u[1] - LimbMod) * LimbMod + u[2]
        ELSE u[1] * LimbMod + u[2]

\* An Option<T> is <<>> for None and <<x>> for Some(x).
\* bincode's encoding of Option<struct of two i32>: a tag byte, then the fields
OptPairBytes(o) ==
    IF o = <<>> THEN <<0>> ELSE <<1>> \o I32Bytes(o[1][1]) \o I32Bytes(o[1][2])

\* The payload types of this program. A HistoryData or IndexCache value is kept
\* whole, as the one element its encoding consists of; the others are encoded
\* byte by byte the way bincode's default configuration does (fixed-width
\* little-endian integers, one tag byte per Option).
bincode_serialize(T, x) ==
    CASE T \in {"HistoryData", "IndexCache"} -> <<x>>
      [] T = "Dummy" -> to_le_bytes(x.value)
      [] T = "WindowPlacement" -> I32Bytes(x[1]) \o I32Bytes(x[2])
      [] T = "WindowPlacementStateV2" ->
            OptPairBytes(x.search) \o OptPairBytes(x.settings)
      [] T = "WindowPlacementState" ->
            OptPairBytes(x.search) \o OptPairBytes(x.settings)
                \o OptPairBytes(x.settings_size)

\* Reading an Option<pair of i32> at the front of `b`:
\* <<>> when the bytes do not hold one, else <<value, the bytes after it>>
TakeOptPair(b) ==
    IF Len(b) < 1 THEN <<>>
    ELSE IF b[1] = 0 THEN <<<<>>, SubSeq(b, 2, Len(b))>>
    ELSE IF b[1] = 1 /\ Len(b) >= 9
         THEN << <<<<I32OfBytes(SubSeq(b, 2, 5)), I32OfBytes(SubSeq(b, 6, 9))>>>>,
                 SubSeq(b, 10, Len(b)) >>
    ELSE <<>>

\* bincode::deserialize::<T>(b): bytes left over after the value are ignored
bincode_deserialize(T, b) ==
    CASE T \in {"HistoryData", "IndexCache"} ->
            IF Len(b) >= 1 THEN <<b[1]>> ELSE <<>>
      [] T = "Dummy" ->
            IF Len(b) >= 4 THEN <<[value |-> from_le_bytes(SubSeq(b, 1, 4))]>>
            ELSE <<>>
      [] T = "WindowPlacement" ->
            IF Len(b) >= 8
            THEN << <<I32OfBytes(SubSeq(b, 1, 4)), I32OfBytes(SubSeq(b, 5, 8))>> >>
            ELSE <<>>
      [] T = "WindowPlacementStateV2" ->
            LET s1 == TakeOptPair(b)
                s2 == IF s1 = <<>> THEN <<>> ELSE TakeOptPair(s1[2])
            IN  IF s2 = <<>> THEN <<>>
                ELSE <<[search |-> s1[1], settings |-> s2[1]]>>
      [] T = "WindowPlacementState" ->
            LET s1 == TakeOptPair(b)
                s2 == IF s1 = <<>> THEN <<>> ELSE TakeOptPair(s1[2])
                s3 == IF s2 = <<>> THEN <<>> ELSE TakeOptPair(s2[2])
            IN  IF s3 = <<>> THEN <<>>
                ELSE <<[search |-> s1[1], settings |-> s2[1],
                        settings_size |-> s3[1]]>>

\* serialize_with_header::<T>(magic, version, payload), the Some(..) it returns
serialize_with_header(T, magic, version, payload) ==
    magic \o to_le_bytes(version) \o bincode_serialize(T, payload)

\* deserialize_with_header without the comparison of the version
deserialize_with_header_AnyVersion(T, bytes, magic, version) ==
    IF Len(bytes) < HEADER_LEN THEN <<>>
    ELSE IF SubSeq(bytes, 1, 4) # magic THEN <<>>
    ELSE bincode_deserialize(T, SubSeq(bytes, HEADER_LEN + 1, Len(bytes)))

\* deserialize_with_header::<T>(bytes, magic, version)
deserialize_with_header(T, bytes, magic, version) ==
    IF Len(bytes) < HEADER_LEN THEN <<>>
    ELSE IF SubSeq(bytes, 1, 4) # magic THEN <<>>
    ELSE IF from_le_bytes(SubSeq(bytes, 5, 8)) # version THEN <<>>
    ELSE bincode_deserialize(T, SubSeq(bytes, HEADER_LEN + 1, Len(bytes)))

---------------------------------------------------------------------------
(* The files of the store *)

\* fs::read fails
Missing == [kind |-> "missing", bytes |-> <<>>]

File(bytes) == [kind |-> "file", bytes |-> bytes]

\* A file whose payload does not decode: the header and nothing after it, as a
\* write that stopped early leaves
Corrupt == File(HISTORY_MAGIC \o to_le_bytes(U32(HISTORY_VERSION)))

\* The encoding save writes for the data `d`
HistoryBytes(d) ==
    File(serialize_with_header("HistoryData", HISTORY_MAGIC, U32(HISTORY_VERSION), d))

\* fs::read(path).ok().and_then(deserialize_with_header)
ReadHistory(d) ==
    IF d.real.kind # "file" THEN <<>>
    ELSE deserialize_with_header("HistoryData", d.real.bytes, HISTORY_MAGIC,
                                 U32(HISTORY_VERSION))

---------------------------------------------------------------------------
(* history.rs: save, lines 66-82, after prune *)

\* The states of the two files that save passes through, in order, for the
\* pruned data `pd`: before any write; history.bin.tmp partly written; fs::write
\* returned; remove_file returned; rename returned. write_ok, remove_ok and
\* rename_ok are the results of the three calls (errors of the last two are
\* discarded by `let _ =`).
SaveTrace(dsk, pd, write_ok, remove_ok, rename_ok) ==
    LET bytes == HistoryBytes(pd)
        s0 == dsk
        s1 == [s0 EXCEPT !.tmp = Corrupt]
        s2 == [s0 EXCEPT !.tmp = IF write_ok THEN bytes ELSE Corrupt]
        s3 == IF remove_ok THEN [s2 EXCEPT !.real = Missing] ELSE s2
        s4 == IF rename_ok THEN [real |-> s3.tmp, tmp |-> Missing] ELSE s3
    IN  IF write_ok THEN <<s0, s1, s2, s3, s4>> ELSE <<s0, s1, s2>>

---------------------------------------------------------------------------
(* The history store as a state machine *)

\* The record of a call: its arguments, the data before it (`before`), the data
\* handed to save (`mutated`), the bytes save had to write (`bytes`), the files
\* when it began (`disk0`), how it ended, and whether every fs::write and
\* fs::rename the call made succeeded (`io_ok`).
NoCall ==
    [op |-> "none", path |-> "", query |-> <<>>, now |-> 0,
     before |-> EmptyData, mutated |-> EmptyData, outcome |-> "none",
     io_ok |-> TRUE,
     bytes |-> Missing,
     disk0 |-> [real |-> Missing, tmp |-> Missing]]

\* Files a previous run of the program can have left as history.bin: the data it
\* held after some sequence of launches and folder expansions, pruned under the
\* top_n of that run (which the configuration may since have changed).
InitData ==
    { EmptyData,
      [ global |-> [p \in {"low"} |-> GlobalEntry(U32(1), 0)],
        query |-> [k \in {<<"a">>} |-> [p \in {"low"} |-> U32(1)]],
        folder_expansion |-> [f \in {"d1"} |-> U32(1)] ],
      [ global |-> [p \in {"low", "med", "high"} |->
                        CASE p = "low" -> GlobalEntry(U32(1), 0)
                          [] p = "med" -> GlobalEntry(U32(5), 1)
                          [] p = "high" -> GlobalEntry(U32(9), 1)],
        query |-> [k \in {<<"a">>, <<"a", " ", "b">>} |->
                        IF k = <<"a">>
                        THEN [p \in {"low", "med"} |-> U32(1)]
                        ELSE [p \in {"low"} |-> U32(1)]],
        folder_expansion |-> [f \in {"d1", "d2"} |->
                                 IF f = "d1" THEN U32(1) ELSE U32(2)] ],
      [ global |-> [p \in {"high"} |-> GlobalEntry(U32Max, 1)],
        query |-> [k \in {<<"a">>} |-> [p \in {"high"} |-> U32Max]],
        folder_expansion |-> [f \in {"d1"} |-> U32Max] ] }

InitFiles ==
    { HistoryBytes(d) : d \in InitData }
    \cup { Missing, Corrupt,
           \* shorter than the header
           File(<<72, 73, 83>>),
           \* another magic
           File(serialize_with_header("HistoryData", <<73, 78, 68, 88>>,
                                      U32(HISTORY_VERSION), EmptyData)),
           \* an unknown version
           File(serialize_with_header("HistoryData", HISTORY_MAGIC,
                                      U32(HISTORY_VERSION + 1), EmptyData)) }

\* What save can do to the files for the pruned data `pd`: each state of
\* SaveTrace up to which the process got before it stopped (`stopped`), or the
\* last one when save returned.
SaveOutcomes(dsk, pd) ==
    UNION { LET tr == SaveTrace(dsk, pd, w, rm, rn)
            IN  { [disk |-> tr[k], stopped |-> TRUE, io_ok |-> TRUE]
                  : k \in 1..Len(tr) }
                \cup { [disk |-> tr[Len(tr)], stopped |-> FALSE,
                        io_ok |-> w /\ rn] }
            : <<w, rm, rn>> \in BOOLEAN \X BOOLEAN \X BOOLEAN }

\* save that puts the store back as it was when a file operation fails
save_RollbackOnError(md, call) ==
    \E pd \in prune(md, top_n) :
    \E o \in SaveOutcomes(disk, pd) :
        /\ disk' = o.disk
        /\ IF o.stopped
           THEN /\ proc' = "down"
                /\ data' = EmptyData
                /\ last' = [NoCall EXCEPT !.op = call.op, !.outcome = "stopped",
                                !.disk0 = disk,
                                !.bytes = HistoryBytes(pd)]
           ELSE /\ proc' = "up"
                /\ data' = IF o.io_ok THEN pd ELSE call.before
                /\ last' = [call EXCEPT !.mutated = md, !.outcome = "returned",
                                         !.io_ok = o.io_ok]

\* save, called with the store holding `md`: prune, then the file operations.
\* When the process stops the store is gone with it.
save(md, call) ==
    \E pd \in prune(md, top_n) :
    \E o \in SaveOutcomes(disk, pd) :
        /\ disk' = o.disk
        /\ IF o.stopped
           THEN /\ proc' = "down"
                /\ data' = EmptyData
                /\ last' = [NoCall EXCEPT !.op = call.op, !.outcome = "stopped",
                                !.disk0 = disk,
                                !.bytes = HistoryBytes(pd)]
           ELSE /\ proc' = "up"
                /\ data' = pd
                /\ last' = [call EXCEPT !.mutated = md, !.outcome = "returned",
                                         !.io_ok = o.io_ok]

\* A panic of the handler: the store is lost with the process.
Panic(call) ==
    /\ proc' = "panicked"
    /\ data' = EmptyData
    /\ last' = [NoCall EXCEPT !.op = call.op, !.path = call.path,
                              !.query = call.query, !.outcome = "panicked"]
    /\ UNCHANGED disk

\* load that starts empty on a decode failure without saving
load_NoRewrite(n) ==
    /\ proc # "up"
    /\ top_n' = n
    /\ LET got == ReadHistory(disk)
       IN  /\ data' = IF got # <<>> THEN got[1] ELSE EmptyData
           /\ proc' = "up"
           /\ last' = [NoCall EXCEPT !.op = "load", !.disk0 = disk,
                                     !.mutated = data', !.outcome = "returned"]
           /\ UNCHANGED disk
    /\ UNCHANGED <<ops, ivars, xvars>>

\* HistoryStore::load(top_n, _)
load(n) ==
    /\ proc # "up"
    /\ top_n' = n
    /\ LET call == [NoCall EXCEPT !.op = "load", !.disk0 = disk]
           got == ReadHistory(disk)
       IN  IF got # <<>>
           THEN /\ data' = got[1]
                /\ proc' = "up"
                /\ last' = [call EXCEPT !.mutated = got[1], !.outcome = "returned"]
                /\ UNCHANGED disk
           ELSE save(EmptyData, call)
    /\ UNCHANGED <<ops, ivars, xvars>>

\* HistoryStore::record_launch(path, query), the clock reading `now`
record_launch(path, query, now) ==
    /\ proc = "up"
    /\ ops < MaxOps
    /\ ops' = ops + 1
    /\ LET call == [NoCall EXCEPT !.op = "launch", !.path = path, !.query = query,
                                  !.now = now, !.before = data]
           m == record_launch_mutate(data, path, query, now)
       IN  \/ m.overflow /\ Panic(call)
           \/ save(m.data, call)
    /\ UNCHANGED <<top_n, ivars, xvars>>

\* HistoryStore::record_folder_expansion(folder_path)
record_folder_expansion(folder_path) ==
    /\ proc = "up"
    /\ ops < MaxOps
    /\ ops' = ops + 1
    /\ LET call == [NoCall EXCEPT !.op = "expand", !.path = folder_path,
                                  !.before = data]
           m == record_folder_expansion_mutate(data, folder_path)
       IN  \/ m.overflow /\ Panic(call)
           \/ save(m.data, call)
    /\ UNCHANGED <<top_n, ivars, xvars>>

NextHistory ==
    \/ \E n \in TopNs : load(n)
    \/ \E path \in Paths, query \in RawQueries, now \in Times :
          record_launch(path, query, now)
    \/ \E folder_path \in Folders : record_folder_expansion(folder_path)

---------------------------------------------------------------------------
(* src-tauri: AppState, the main thread's handlers and the index-build thread *)

Configs == 0..MaxConfig

WorkerIds == 1..MaxBuilds

\* indexer::rebuild_and_save / load_or_scan: the entry list of scan number `b`
\* made under configuration `c`. Each entry carries the scan that found it.
Scan(b, c) == [i \in 1..MaxEntries |-> [scan |-> b, config |-> c, i |-> i]]

\* SearchEngine::new(entries): the entries and the parallel lower_names
SearchEngine_new(entries) ==
    [entries |-> entries, lower_names |-> [i \in 1..Len(entries) |-> entries[i].i]]

NoWorker == [pc |-> "none", scan |-> 0, entries |-> <<>>]

IdleCall == [pc |-> "idle", kind |-> "none", seen |-> <<>>, locked |-> <<>>]

NoReq == [op |-> "none", changed |-> FALSE, in_flight |-> FALSE, spawned |-> FALSE]

\* The part of a build thread up to and including indexing.store(false)
BuildPcs == {"config", "scan", "icons", "swap", "flag"}

\* The rest of the thread: the notifications of lines 77-85
TailPcs == {"notify", "emit"}

InFlight == { w \in WorkerIds : workers[w].pc \in BuildPcs }

Alive == { w \in WorkerIds : workers[w].pc \in BuildPcs \cup TailPcs }

Spawned == { w \in WorkerIds : workers[w].pc # "none" }

\* search and get_history_results hold the config, engine and history locks from
\* their first line to their return.
LocksFree == cmd.pc # "reading"

\* A handler can run: the main thread is not inside another one.
MainThreadFree == cmd.pc # "reading"

\* start_index_build, called when index_build_started holds `started_now` (the
\* caller may just have stored false): the compare_exchange, then indexing = true
\* and the spawn. The thread begins at its first statement.
start_index_build_NoGuard(started_now) ==
    /\ Spawned # WorkerIds
    /\ index_build_started' = TRUE
    /\ indexing' = TRUE
    /\ LET w == CHOOSE x \in WorkerIds \ Spawned :
                   \A y \in WorkerIds \ Spawned : x <= y
       IN  workers' = [workers EXCEPT ![w] = [NoWorker EXCEPT !.pc = "config"]]

start_index_build(started_now) ==
    IF started_now
    THEN /\ index_build_started' = started_now
         /\ UNCHANGED <<indexing, workers>>
    ELSE /\ Spawned # WorkerIds
         /\ index_build_started' = TRUE
         /\ indexing' = TRUE
         /\ LET w == CHOOSE x \in WorkerIds \ Spawned :
                        \A y \in WorkerIds \ Spawned : x <= y
            IN  workers' = [workers EXCEPT ![w] = [NoWorker EXCEPT !.pc = "config"]]

\* The record of a handler that may start a build: whether the scan settings
\* changed, whether a build was in flight, whether the handler spawned a thread.
Request(op, changed, started_now) ==
    req' = [op |-> op, changed |-> changed, in_flight |-> InFlight # {},
            spawned |-> ~started_now]

\* rebuild_index with the check of `indexing` (lines 284-286) left out
rebuild_index_NoCheck ==
    /\ MainThreadFree
    /\ start_index_build(FALSE)
    /\ Request("rebuild_index", FALSE, FALSE)
    /\ UNCHANGED <<config, engine, cmd, hvars, xvars>>

\* commands::rebuild_index
rebuild_index ==
    /\ MainThreadFree
    /\ IF indexing
       THEN /\ Request("rebuild_index", FALSE, TRUE)
            /\ UNCHANGED <<indexing, index_build_started, workers>>
       ELSE /\ start_index_build(FALSE)
            /\ Request("rebuild_index", FALSE, FALSE)
    /\ UNCHANGED <<config, engine, cmd, hvars, xvars>>

\* commands::save_config(config): lines 93-154, what bears on the index
save_config(new) ==
    /\ MainThreadFree
    /\ LET old_config == config
           index_changed == new # old_config
           is_first_run_pending == indexing /\ ~index_build_started
           indexing_in_progress == indexing \/ is_first_run_pending
       IN  /\ config' = new
           /\ IF is_first_run_pending
              THEN /\ start_index_build(index_build_started)
                   /\ Request("save_config", index_changed, index_build_started)
              ELSE IF index_changed /\ ~indexing_in_progress
              THEN /\ start_index_build(FALSE)
                   /\ Request("save_config", index_changed, FALSE)
              ELSE /\ Request("save_config", index_changed, TRUE)
                   /\ UNCHANGED <<indexing, index_build_started, workers>>
    /\ UNCHANGED <<engine, cmd, hvars, xvars>>

\* The settings window's CloseRequested handler, main.rs lines 233-246
settings_close ==
    /\ MainThreadFree
    /\ IF indexing
       THEN /\ start_index_build(index_build_started)
            /\ Request("settings_close", FALSE, index_build_started)
       ELSE /\ Request("settings_close", FALSE, TRUE)
            /\ UNCHANGED <<indexing, index_build_started, workers>>
    /\ UNCHANGED <<config, engine, cmd, hvars, xvars>>

---------------------------------------------------------------------------
(* The index-build thread, indexing.rs lines 36-86 *)

Step(w, from, to) ==
    /\ workers[w].pc = from
    /\ workers' = [workers EXCEPT ![w].pc = to]

\* lines 37-45: the scan settings, cloned under the config lock
WorkerReadConfig(w) ==
    /\ workers[w].pc = "config"
    /\ LocksFree
    /\ workers' = [workers EXCEPT ![w].pc = "scan", ![w].scan = config]
    /\ UNCHANGED <<indexing, index_build_started, config, engine, cmd, req, hvars, xvars>>

\* line 47: indexer::rebuild_and_save
WorkerScan(w) ==
    /\ workers[w].pc = "scan"
    /\ workers' = [workers EXCEPT ![w].pc = "icons",
                                  ![w].entries = Scan(w, workers[w].scan)]
    /\ UNCHANGED <<indexing, index_build_started, config, engine, cmd, req, hvars, xvars>>

\* lines 50-62: the icon cache, under its own lock
WorkerIcons(w) ==
    /\ Step(w, "icons", "swap")
    /\ UNCHANGED <<indexing, index_build_started, config, engine, cmd, req, hvars, xvars>>

\* WorkerSwap without the engine lock: the entries are replaced while a query
\* may be reading them
WorkerSwap_NoLock(w) ==
    /\ Step(w, "swap", "flag")
    /\ engine' = SearchEngine_new(workers[w].entries)
    /\ UNCHANGED <<indexing, index_build_started, config, cmd, req, hvars, xvars>>

\* lines 65-69: *engine = SearchEngine::new(entries), under the engine lock
WorkerSwap(w) ==
    /\ LocksFree
    /\ Step(w, "swap", "flag")
    /\ engine' = SearchEngine_new(workers[w].entries)
    /\ UNCHANGED <<indexing, index_build_started, config, cmd, req, hvars, xvars>>

\* indexing.store(false) moved ahead of the engine update
WorkerClearFlag_BeforeSwap(w) ==
    /\ Step(w, "swap", "notify")
    /\ indexing' = FALSE
    /\ UNCHANGED <<index_build_started, config, engine, cmd, req, hvars, xvars>>

\* lines 72-75: indexing.store(false)
WorkerClearFlag(w) ==
    /\ Step(w, "flag", "notify")
    /\ indexing' = FALSE
    /\ UNCHANGED <<index_build_started, config, engine, cmd, req, hvars, xvars>>

\* lines 78-82: SetIndexing(false) to the platform thread
WorkerNotify(w) ==
    /\ Step(w, "notify", "emit")
    /\ UNCHANGED <<indexing, index_build_started, config, engine, cmd, req, hvars, xvars>>

\* line 85: emit("indexing-complete"), and the thread ends
WorkerEmit(w) ==
    /\ Step(w, "emit", "done")
    /\ UNCHANGED <<indexing, index_build_started, config, engine, cmd, req, hvars, xvars>>

---------------------------------------------------------------------------
(* commands::search and commands::get_history_results on the main thread *)

\* The locks are taken (lines 23-25 / 32-34); `locked` is the entry list the
\* engine held at that moment.
QueryBegin(kind) ==
    /\ cmd.pc # "reading"
    /\ cmd' = [pc |-> "reading", kind |-> kind, seen |-> <<>>,
                locked |-> engine.entries]
    /\ UNCHANGED <<indexing, index_build_started, config, engine, workers, req, hvars, xvars>>

\* The iteration over self.entries (search.rs lines 62-66 / 119-123) reads the
\* next entry.
QueryRead ==
    /\ cmd.pc = "reading"
    /\ Len(cmd.seen) < Len(engine.entries)
    /\ cmd' = [cmd EXCEPT !.seen = Append(@, engine.entries[Len(@) + 1])]
    /\ UNCHANGED <<indexing, index_build_started, config, engine, workers, req, hvars, xvars>>

\* The iteration is over: the command returns and the locks are released.
QueryEnd ==
    /\ cmd.pc = "reading"
    /\ Len(cmd.seen) >= Len(engine.entries)
    /\ cmd' = [cmd EXCEPT !.pc = "returned"]
    /\ UNCHANGED <<indexing, index_build_started, config, engine, workers, req, hvars, xvars>>

NextIndex ==
    \/ rebuild_index
    \/ \E new \in Configs : save_config(new)
    \/ settings_close
    \/ \E w \in WorkerIds :
          \/ WorkerReadConfig(w)
          \/ WorkerScan(w)
          \/ WorkerIcons(w)
          \/ WorkerSwap(w)
          \/ WorkerClearFlag(w)
          \/ WorkerNotify(w)
          \/ WorkerEmit(w)
    \/ \E kind \in {"search", "recent_history"} : QueryBegin(kind)
    \/ QueryRead
    \/ QueryEnd

---------------------------------------------------------------------------
(* src/indexer.rs: the index cache of the desktop shell *)

INDEX_CACHE_VERSION == 1

AppEntry(name, target_path, is_folder) ==
    [name |-> name, target_path |-> target_path, is_folder |-> is_folder]

\* scan_all: what the scan finds depends on the file system at the time of the
\* call; these are the lists it can return.
ScanResults ==
    { <<>>,
      <<AppEntry("A", "a.exe", FALSE)>>,
      <<AppEntry("B", "a.exe", FALSE)>>,
      <<AppEntry("A", "b.exe", FALSE)>>,
      <<AppEntry("A", "a.exe", TRUE)>>,
      <<AppEntry("A", "a.exe", FALSE), AppEntry("B", "b", TRUE)>>,
      <<AppEntry("B", "b", TRUE), AppEntry("A", "a.exe", FALSE)>> }

\* The scan settings (additional, scan) the caller passes
ScanRules == {"r1", "r2", "r3"}

\* compute_config_hash: a 64-bit hash of the settings; two settings may collide
compute_config_hash(rules) ==
    CASE rules = "r1" -> U32(17)
      [] rules = "r2" -> U32(40)
      [] rules = "r3" -> U32(17)

IndexCache(version, built_at, entries, config_hash) ==
    [version |-> version, built_at |-> built_at, entries |-> entries,
     config_hash |-> config_hash]

\* entries_equal without the comparison of the lengths
entries_equal_NoLength(a, b) ==
    \A k \in 1..(IF Len(a) < Len(b) THEN Len(a) ELSE Len(b)) :
        /\ a[k].name = b[k].name
        /\ a[k].target_path = b[k].target_path
        /\ a[k].is_folder = b[k].is_folder

\* entries_equal
entries_equal(a, b) ==
    IF Len(a) # Len(b) THEN FALSE
    ELSE \A k \in 1..Len(a) :
            /\ a[k].name = b[k].name
            /\ a[k].target_path = b[k].target_path
            /\ a[k].is_folder = b[k].is_folder

\* std::fs::read(&path) then bincode::deserialize::<IndexCache>
ReadCache(f) ==
    IF f.kind # "file" THEN <<>> ELSE bincode_deserialize("IndexCache", f.bytes)

\* The `changed` of load_or_scan, lines 190-204
Changed(f, current_hash, entries) ==
    LET got == ReadCache(f)
    IN  IF got = <<>> THEN TRUE
        ELSE \/ got[1].version # INDEX_CACHE_VERSION
             \/ got[1].config_hash # current_hash
             \/ ~entries_equal(got[1].entries, entries)

\* save_cache: what index.bin can be afterwards. The write of index.bin.tmp may
\* fail, and then nothing else is done; remove_file and rename may each fail.
CacheOutcomes(f, entries, config_hash, now) ==
    LET bytes == File(bincode_serialize("IndexCache",
                     IndexCache(INDEX_CACHE_VERSION, now, entries, config_hash)))
    IN  { [file |-> f, io_ok |-> FALSE],
          [file |-> Missing, io_ok |-> FALSE],
          [file |-> bytes, io_ok |-> TRUE] }

\* The record of a call: its arguments and scan, the file it found, what it
\* returned, whether it called save_cache and whether the writes succeeded.
NoScan ==
    [op |-> "none", rules |-> "r1", entries |-> <<>>, now |-> 0,
     before |-> Missing, returned |-> <<>>, changed |-> FALSE,
     saved |-> FALSE, io_ok |-> TRUE]

\* save_cache(entries, config_hash), called by `call`
save_cache(entries, config_hash, now, call) ==
    \E o \in CacheOutcomes(index_bin, entries, config_hash, now) :
        /\ index_bin' = o.file
        /\ scanned' = [call EXCEPT !.saved = TRUE, !.io_ok = o.io_ok]

\* load_or_scan that saves whether or not the entries changed
load_or_scan_AlwaysSave(rules, entries, now) ==
    /\ LET current_hash == compute_config_hash(rules)
           changed == Changed(index_bin, current_hash, entries)
           call == [NoScan EXCEPT !.op = "load_or_scan", !.rules = rules,
                                  !.entries = entries, !.now = now,
                                  !.before = index_bin, !.returned = entries,
                                  !.changed = changed]
       IN  save_cache(entries, current_hash, now, call)
    /\ UNCHANGED <<hvars, ivars, bvars, wvars, svars, nvars>>

\* load_or_scan(additional, scan), the scan finding `entries` at time `now`
load_or_scan(rules, entries, now) ==
    /\ LET current_hash == compute_config_hash(rules)
           changed == Changed(index_bin, current_hash, entries)
           call == [NoScan EXCEPT !.op = "load_or_scan", !.rules = rules,
                                  !.entries = entries, !.now = now,
                                  !.before = index_bin, !.returned = entries,
                                  !.changed = changed]
       IN  IF changed
           THEN save_cache(entries, current_hash, now, call)
           ELSE /\ scanned' = call
                /\ UNCHANGED index_bin
    /\ UNCHANGED <<hvars, ivars, bvars, wvars, svars, nvars>>

\* rebuild_and_save(additional, scan)
rebuild_and_save(rules, entries, now) ==
    /\ LET call == [NoScan EXCEPT !.op = "rebuild_and_save", !.rules = rules,
                                  !.entries = entries, !.now = now,
                                  !.before = index_bin, !.returned = entries]
       IN  save_cache(entries, compute_config_hash(rules), now, call)
    /\ UNCHANGED <<hvars, ivars, bvars, wvars, svars, nvars>>

\* Files an earlier run, or an earlier version of the program, can have left
InitCacheFiles ==
    { Missing, File(<<>>),
      File(bincode_serialize("IndexCache",
               IndexCache(INDEX_CACHE_VERSION + 1, 0, <<>>, compute_config_hash("r1")))) }

NextCache ==
    \/ \E rules \in ScanRules, entries \in ScanResults, now \in Times :
          load_or_scan(rules, entries, now)
    \/ \E rules \in ScanRules, entries \in ScanResults, now \in Times :
          rebuild_and_save(rules, entries, now)

---------------------------------------------------------------------------
(* binfmt.rs driven on its own: encode a value, damage the bytes or not, decode *)

\* "TEST" and "GOOD", the magics of the tests
Magics == { <<84, 69, 83, 84>>, <<71, 79, 79, 68>> }

Versions == { U32(0), U32(1), U32(2), U32(65536 + 258), U32Max }

Placements == { <<0, 0>>, <<-1, 70000>> }

OptPlacements == { <<>> } \cup { <<p>> : p \in Placements }

\* Payload values of each type encoded byte by byte
Payloads(T) ==
    CASE T = "Dummy" -> { [value |-> v] : v \in {U32(1), U32(42), U32Max} }
      [] T = "WindowPlacement" -> Placements
      [] T = "WindowPlacementStateV2" ->
            { [search |-> a, settings |-> b]
              : <<a, b>> \in OptPlacements \X {<<>>, <<<<0, 0>>>>} }
      [] T = "WindowPlacementState" ->
            { [search |-> a, settings |-> <<>>, settings_size |-> c]
              : <<a, c>> \in OptPlacements \X {<<>>, <<<<760, 560>>>>} }

PayloadTypes ==
    {"Dummy", "WindowPlacement", "WindowPlacementStateV2", "WindowPlacementState"}

\* The lengths a truncated buffer is cut to
CutLengths == {0, 3, HEADER_LEN - 1, HEADER_LEN}

NewCodec(T, magic, version, payload) ==
    [pc |-> "new", T |-> T, magic |-> magic, version |-> version,
     payload |-> payload, bytes |-> <<>>, intact |-> TRUE, damaged_at |-> 0,
     with_magic |-> magic, with_version |-> version, out |-> <<>>]

\* serialize_with_header(magic, version, &payload)
Serialize ==
    /\ codec.pc = "new"
    /\ codec' = [codec EXCEPT
                   !.pc = "encoded",
                   !.bytes = serialize_with_header(codec.T, codec.magic,
                                                   codec.version, codec.payload)]
    /\ UNCHANGED <<hvars, ivars, cvars, wvars, svars, nvars>>

\* The buffer reaches the reader cut short
Truncate(n) ==
    /\ codec.pc = "encoded"
    /\ n < Len(codec.bytes)
    /\ codec' = [codec EXCEPT !.pc = "damaged", !.intact = FALSE,
                              !.bytes = SubSeq(codec.bytes, 1, n)]
    /\ UNCHANGED <<hvars, ivars, cvars, wvars, svars, nvars>>

\* The buffer reaches the reader with byte k changed
Overwrite(k) ==
    /\ codec.pc = "encoded"
    /\ k \in 1..Len(codec.bytes)
    /\ codec' = [codec EXCEPT !.pc = "damaged", !.intact = FALSE,
                              !.damaged_at = k,
                              !.bytes[k] = (codec.bytes[k] + 1) % 256]
    /\ UNCHANGED <<hvars, ivars, cvars, wvars, svars, nvars>>

\* deserialize_with_header::<T>(&bytes, magic, version)
Deserialize(magic, version) ==
    /\ codec.pc \in {"encoded", "damaged"}
    /\ codec' = [codec EXCEPT
                   !.pc = "decoded", !.with_magic = magic,
                   !.with_version = version,
                   !.out = deserialize_with_header(codec.T, codec.bytes, magic,
                                                   version)]
    /\ UNCHANGED <<hvars, ivars, cvars, wvars, svars, nvars>>

MaxLenBytes == HEADER_LEN + 27

NextBinfmt ==
    \/ Serialize
    \/ \E n \in CutLengths : Truncate(n)
    \/ \E k \in 1..MaxLenBytes : Overwrite(k)
    \/ \E magic \in Magics, version \in Versions : Deserialize(magic, version)

---------------------------------------------------------------------------
(* window_data.rs: the window placement file and its three versions *)

WINDOW_MAGIC == <<87, 78, 68, 87>>

WINDOW_VERSION_V1 == 1

WINDOW_VERSION_V2 == 2

WINDOW_VERSION_V3 == 3

WindowSizes == { <<760, 560>>, <<520, 360>> }

WindowPlacementState(search, settings, settings_size) ==
    [search |-> search, settings |-> settings, settings_size |-> settings_size]

\* WindowPlacementState::default()
DefaultState == WindowPlacementState(<<>>, <<>>, <<>>)

\* load_state without the version-2 step
load_state_NoV2(f) ==
    IF f.kind # "file" THEN <<>>
    ELSE
    LET v3 == deserialize_with_header("WindowPlacementState", f.bytes,
                                      WINDOW_MAGIC, U32(WINDOW_VERSION_V3))
        v1 == deserialize_with_header("WindowPlacement", f.bytes,
                                      WINDOW_MAGIC, U32(WINDOW_VERSION_V1))
    IN  IF v3 # <<>> THEN v3
        ELSE IF v1 # <<>> THEN <<WindowPlacementState(<<v1[1]>>, <<>>, <<>>)>>
        ELSE <<>>

\* load_state(), reading the file `f`
load_state(f) ==
    IF f.kind # "file" THEN <<>>
    ELSE
    LET v3 == deserialize_with_header("WindowPlacementState", f.bytes,
                                      WINDOW_MAGIC, U32(WINDOW_VERSION_V3))
        v2 == deserialize_with_header("WindowPlacementStateV2", f.bytes,
                                      WINDOW_MAGIC, U32(WINDOW_VERSION_V2))
        v1 == deserialize_with_header("WindowPlacement", f.bytes,
                                      WINDOW_MAGIC, U32(WINDOW_VERSION_V1))
    IN  IF v3 # <<>> THEN v3
        ELSE IF v2 # <<>>
             THEN <<WindowPlacementState(v2[1].search, v2[1].settings, <<>>)>>
        ELSE IF v1 # <<>> THEN <<WindowPlacementState(<<v1[1]>>, <<>>, <<>>)>>
        ELSE <<>>

\* The file a version of the program wrote for the value x
WindowFile(T, version, x) ==
    File(serialize_with_header(T, WINDOW_MAGIC, U32(version), x))

\* save_state(state): what window.bin can be afterwards
save_state(state) ==
    window_bin' \in { window_bin, Missing,
                      WindowFile("WindowPlacementState", WINDOW_VERSION_V3, state) }

\* load_state().unwrap_or_default()
StateOrDefault == IF load_state(window_bin) = <<>> THEN DefaultState
                  ELSE load_state(window_bin)[1]

\* A call of load_state (through load_search_placement, load_settings_placement
\* or load_settings_size): the file read and the result
LoadState ==
    /\ loaded' = [op |-> "load_state", file |-> window_bin,
                  result |-> load_state(window_bin)]
    /\ UNCHANGED <<window_bin, hvars, ivars, cvars, bvars, svars, nvars>>

save_search_placement(placement) ==
    /\ save_state([StateOrDefault EXCEPT !.search = <<placement>>])
    /\ loaded' = [op |-> "save", file |-> window_bin,
                  result |-> load_state(window_bin)]
    /\ UNCHANGED <<hvars, ivars, cvars, bvars, svars, nvars>>

save_settings_placement(placement) ==
    /\ save_state([StateOrDefault EXCEPT !.settings = <<placement>>])
    /\ loaded' = [op |-> "save", file |-> window_bin,
                  result |-> load_state(window_bin)]
    /\ UNCHANGED <<hvars, ivars, cvars, bvars, svars, nvars>>

save_settings_size(size) ==
    /\ save_state([StateOrDefault EXCEPT !.settings_size = <<size>>])
    /\ loaded' = [op |-> "save", file |-> window_bin,
                  result |-> load_state(window_bin)]
    /\ UNCHANGED <<hvars, ivars, cvars, bvars, svars, nvars>>

V2States == { [search |-> a, settings |-> b] : <<a, b>> \in OptPlacements \X OptPlacements }

\* window.bin as versions 1, 2 and 3 of the program can have left it, and
\* files that are none of these: absent, cut short, of another magic, of a
\* version not yet known, or a version-3 header over a version-2 body
InitWindowFiles ==
    { WindowFile("WindowPlacement", WINDOW_VERSION_V1, pl) : pl \in Placements }
    \cup { WindowFile("WindowPlacementStateV2", WINDOW_VERSION_V2, x) : x \in V2States }
    \cup { WindowFile("WindowPlacementState", WINDOW_VERSION_V3,
                      WindowPlacementState(<<<<0, 0>>>>, <<>>, <<<<760, 560>>>>)) }
    \cup { Missing, File(<<87, 78, 68>>),
           File(serialize_with_header("WindowPlacement", HISTORY_MAGIC,
                                      U32(WINDOW_VERSION_V1), <<0, 0>>)),
           WindowFile("WindowPlacementState", WINDOW_VERSION_V3 + 1, DefaultState),
           WindowFile("WindowPlacementStateV2", WINDOW_VERSION_V3,
                      [search |-> <<<<0, 0>>>>, settings |-> <<<<0, 0>>>>]) }

NoLoad == [op |-> "none", file |-> Missing, result |-> <<>>]

NextWindow ==
    \/ LoadState
    \/ \E placement \in Placements : save_search_placement(placement)
    \/ \E placement \in Placements : save_settings_placement(placement)
    \/ \E size \in WindowSizes : save_settings_size(size)

---------------------------------------------------------------------------
(* search.rs: SearchEngine::search *)

GLOBAL_WEIGHT == 5

QUERY_WEIGHT == 20

FOLDER_EXPANSION_WEIGHT == 5

SearchModes == {"Prefix", "Substring", "Fuzzy"}

\* The code point of a character, for the comparison of strings
CharCode(ch) ==
    CASE ch = "\t" -> 9   [] ch = " " -> 32  [] ch = "!" -> 33  [] ch = "." -> 46
      [] ch = "/" -> 47   [] ch = ":" -> 58
      [] ch = "A" -> 65   [] ch = "B" -> 66  [] ch = "P" -> 80
      [] ch = "S" -> 83   [] ch = "\\" -> 92
      [] ch = "a" -> 97   [] ch = "b" -> 98  [] ch = "c" -> 99
      [] ch = "d" -> 100  [] ch = "e" -> 101 [] ch = "k" -> 107
      [] ch = "l" -> 108  [] ch = "n" -> 110 [] ch = "p" -> 112
      [] ch = "o" -> 111  [] ch = "s" -> 115 [] ch = "t" -> 116
      [] ch = "x" -> 120

\* str::to_lowercase
to_lowercase(str) == [i \in 1..Len(str) |-> ToLowercase(str[i])]

\* Ord for str: -1, 0 or 1
RECURSIVE StrCmp(_, _)
StrCmp(x, y) ==
    IF x = <<>> /\ y = <<>> THEN 0
    ELSE IF x = <<>> THEN -1
    ELSE IF y = <<>> THEN 1
    ELSE IF CharCode(Head(x)) < CharCode(Head(y)) THEN -1
    ELSE IF CharCode(Head(x)) > CharCode(Head(y)) THEN 1
    ELSE StrCmp(Tail(x), Tail(y))

\* str::starts_with
StartsWith(str, pat) ==
    Len(pat) <= Len(str) /\ SubSeq(str, 1, Len(pat)) = pat

\* str::find: <<>> or <<the index, from 0, of the first occurrence>>
Find(str, pat) ==
    LET hits == { i \in 0..(Len(str) - Len(pat)) : SubSeq(str, i + 1, i + Len(pat)) = pat }
    IN  IF hits = {} THEN <<>> ELSE <<CHOOSE i \in hits : \A j \in hits : i <= j>>

\* Whether pat's characters occur in str in order, from position i of str
RECURSIVE IsSubsequence(_, _)
IsSubsequence(pat, str) ==
    IF pat = <<>> THEN TRUE
    ELSE IF str = <<>> THEN FALSE
    ELSE IF Head(pat) = Head(str) THEN IsSubsequence(Tail(pat), Tail(str))
    ELSE IsSubsequence(pat, Tail(str))

\* SkimMatcherV2::fuzzy_match(choice, pattern): Some(score) when the pattern's
\* characters occur in the choice in order. The crate's score is stood in for
\* by one that grows with the pattern and shrinks with the choice.
fuzzy_match(choice, pattern) ==
    IF IsSubsequence(pattern, choice)
    THEN <<16 * Len(pattern) - Len(choice)>>
    ELSE <<>>

\* match_score_single_cached(mode, matcher, lower_name, query)
match_score_single_cached(mode, lower_name, query) ==
    CASE mode = "Prefix" ->
            IF StartsWith(lower_name, query) THEN <<10000 - Len(lower_name)>>
            ELSE <<>>
      [] mode = "Substring" ->
            IF Find(lower_name, query) = <<>> THEN <<>>
            ELSE <<5000 - Find(lower_name, query)[1]>>
      [] mode = "Fuzzy" -> fuzzy_match(lower_name, query)

\* match_score_single(mode, matcher, name, query)
match_score_single(mode, name, query) ==
    match_score_single_cached(mode, to_lowercase(name), query)

IsSeparator(ch) == ch \in {"\\", "/"}

\* Path::new(target_path).file_name(): the last component, unless there is
\* none or it is ".."; a "." after the first component is skipped. Both
\* separators of a Windows path count; no path here has a drive prefix.
RECURSIVE file_name(_)
file_name(path) ==
    IF path = <<>> THEN <<>>
    ELSE IF IsSeparator(path[Len(path)]) THEN file_name(SubSeq(path, 1, Len(path) - 1))
    ELSE LET seps == { i \in 1..Len(path) : IsSeparator(path[i]) }
             start == IF seps = {} THEN 1
                      ELSE 1 + CHOOSE i \in seps : \A j \in seps : j <= i
             comp == SubSeq(path, start, Len(path))
         IN  IF comp = <<".", ".">> THEN <<>>
             ELSE IF comp = <<".">>
             THEN (IF start = 1 THEN <<>> ELSE file_name(SubSeq(path, 1, start - 1)))
             ELSE <<comp>>

\* u32 as i64
AsI64(x) == x[1] * LimbMod + x[2]

Max(a, b) == IF a >= b THEN a ELSE b

\* base_score without the match against the file name
BaseScore_NameOnly(mode, entry, norm_query) ==
    match_score_single_cached(mode, to_lowercase(entry.name), norm_query)

\* The `score` of lines 67-82: the base score of an entry, if it matches
BaseScore(mode, entry, norm_query) ==
    LET name_score == match_score_single_cached(mode, to_lowercase(entry.name),
                                                norm_query)
        has_dot == \E i \in 1..Len(norm_query) : norm_query[i] = "."
    IN  IF has_dot
        THEN LET f == file_name(entry.target_path)
                 fn_score == IF f = <<>> THEN <<>>
                             ELSE match_score_single(mode, f[1], norm_query)
             IN  IF name_score # <<>> /\ fn_score # <<>>
                 THEN <<Max(name_score[1], fn_score[1])>>
                 ELSE IF name_score # <<>> THEN name_score ELSE fn_score
        ELSE name_score

\* The tuple (combined, last, entry, lower_name) of lines 83-95
Scored(history, entry, norm_query, base_score) ==
    LET global == AsI64(global_count(history, entry.target_path))
        qcount == AsI64(query_count(history, norm_query, entry.target_path))
        folder_boost ==
            IF entry.is_folder
            THEN AsI64(folder_expansion_count(history, entry.target_path))
                    * FOLDER_EXPANSION_WEIGHT
            ELSE 0
        last_l == last_launched(history, entry.target_path)
    IN  [combined |-> base_score + global * GLOBAL_WEIGHT + qcount * QUERY_WEIGHT
                        + folder_boost,
         last |-> IF last_l = <<>> THEN 0 ELSE last_l[1],
         entry |-> entry,
         lower_name |-> to_lowercase(entry.name)]

\* The comparator without the last_launched key
Compare_NoRecency(a, b) ==
    IF b.combined # a.combined
    THEN (IF b.combined < a.combined THEN -1 ELSE 1)
    ELSE StrCmp(a.lower_name, b.lower_name)

\* The comparator of sort_by, lines 100-104: -1 when a goes first
Compare(a, b) ==
    IF b.combined # a.combined
    THEN (IF b.combined < a.combined THEN -1 ELSE 1)
    ELSE IF b.last # a.last
    THEN (IF b.last < a.last THEN -1 ELSE 1)
    ELSE StrCmp(a.lower_name, b.lower_name)

\* slice::sort_by is stable: x goes after the elements it does not precede
RECURSIVE InsertSorted(_, _)
InsertSorted(sorted, x) ==
    IF sorted = <<>> THEN <<x>>
    ELSE IF Compare(x, Head(sorted)) < 0 THEN <<x>> \o sorted
    ELSE <<Head(sorted)>> \o InsertSorted(Tail(sorted), x)

RECURSIVE SortBy(_)
SortBy(seq) ==
    IF seq = <<>> THEN <<>>
    ELSE InsertSorted(SortBy(SubSeq(seq, 1, Len(seq) - 1)), seq[Len(seq)])

\* filter_map over the entries, in order
RECURSIVE FilterMap(_, _, _, _)
FilterMap(entries, history, norm_query, mode) ==
    IF entries = <<>> THEN <<>>
    ELSE LET score == BaseScore(mode, Head(entries), norm_query)
             rest == FilterMap(Tail(entries), history, norm_query, mode)
         IN  IF score = <<>> THEN rest
             ELSE <<Scored(history, Head(entries), norm_query, score[1])>> \o rest

SearchResult(entry) ==
    [name |-> entry.name, path |-> entry.target_path,
     is_folder |-> entry.is_folder, is_error |-> FALSE]

\* search without the early return for an empty query
search_NoEmptyCheck(entries, query, max_results, history, mode) ==
    LET norm_query == normalize_query(query)
        sorted == SortBy(FilterMap(entries, history, norm_query, mode))
        kept == SubSeq(sorted, 1, IF max_results < Len(sorted) THEN max_results
                                  ELSE Len(sorted))
    IN  [i \in 1..Len(kept) |-> SearchResult(kept[i].entry)]

\* SearchEngine::search(query, max_results, history, mode)
search(entries, query, max_results, history, mode) ==
    LET norm_query == normalize_query(query)
    IN  IF norm_query = <<>> THEN <<>>
        ELSE LET sorted == SortBy(FilterMap(entries, history, norm_query, mode))
                 kept == SubSeq(sorted, 1,
                                IF max_results < Len(sorted) THEN max_results
                                ELSE Len(sorted))
             IN  [i \in 1..Len(kept) |-> SearchResult(kept[i].entry)]

---------------------------------------------------------------------------
(* The search driver: an engine over a catalog, a history, and calls of search *)

MaxResults == 3

\* The entries an engine can be built over (SearchEngine::new)
Catalogs ==
    { <<>>,
      << AppEntry(<<"S", "S", "P">>, <<"d", "\\", "S", "S", "P", ".", "e", "x", "e">>,
                  FALSE) >>,
      << AppEntry(<<"S", "S", "P">>, <<"d", "\\", "S", "S", "P", ".", "l", "n", "k">>,
                  FALSE) >>,
      << AppEntry(<<"A", "b", "c">>, <<"a", "b", "c">>, FALSE),
         AppEntry(<<"b", "a">>, <<"b", "a">>, TRUE),
         AppEntry(<<"a", "b">>, <<"a", "b">>, FALSE),
         AppEntry(<<"a", "b">>, <<"d", "\\", "a", "b">>, FALSE) >>,
      << AppEntry(<<"a", ".">>, <<".", ".">>, FALSE),
         AppEntry(<<"b">>, <<"d", "\\", "a", ".", "B">>, FALSE),
         AppEntry(<<"a", ".", "b">>, <<"d", "\\", "b", "a", ".", "b", "\\">>, TRUE) >> }

\* The histories a search can be run against
SearchHistories ==
    { EmptyData,
      [ global |-> [p \in {<<"a", "b">>, <<"a", "b", "c">>} |->
                        IF p = <<"a", "b">> THEN GlobalEntry(U32(1), 0)
                        ELSE GlobalEntry(U32(1), 1)],
        query |-> EmptyMap,
        folder_expansion |-> EmptyMap ],
      [ global |-> [p \in {<<"a", "b", "c">>} |-> GlobalEntry(U32(1), 1)],
        query |-> [k \in {<<"a">>} |-> [p \in {<<"a", "b", "c">>} |-> U32(1)]],
        folder_expansion |-> [f \in {<<"b", "a">>, <<"a", "b">>} |->
                                  IF f = <<"b", "a">> THEN U32(2) ELSE U32(1)] ],
      [ global |-> [p \in {<<"d", "\\", "a", ".", "B">>} |-> GlobalEntry(U32(2), 1)],
        query |-> [k \in {<<"a", ".">>} |->
                       [p \in {<<".", ".">>} |-> U32(1)]],
        folder_expansion |-> [f \in {<<"d", "\\", "b", "a", ".", "b", "\\">>} |->
                                  U32(3)] ],
      [ global |-> [p \in {<<"a", "b", "c">>, <<"a", "b">>,
                           <<"d", "\\", "S", "S", "P", ".", "e", "x", "e">>} |->
                        IF p = <<"a", "b">> THEN GlobalEntry(U32(1), 0)
                        ELSE GlobalEntry(U32(1), 1)],
        query |-> EmptyMap,
        folder_expansion |-> EmptyMap ] }

\* What the user can have typed
SearchQueries ==
    { <<>>,
      <<" ">>,
      <<"\t", " ">>,
      <<"a">>,
      <<" ", "A", "\t">>,
      <<"b">>,
      <<"a", "b">>,
      <<".">>,
      <<"a", ".">>,
      <<"a", ".", "B">>,
      <<"S", "S", "P", ".">>,
      <<"s", "s", "p", ".", "e", "x", "e">>,
      <<"\t", "A", " ", "\t", " ", "b", " ">>,
      <<"U+1D400">>,
      <<" ", "B", " ", " ", "U+1D400", "\t">> }

NoSearch ==
    [op |-> "none", query |-> <<>>, mode |-> "Prefix", max_results |-> 0,
     results |-> <<>>]

NoEngine == [entries |-> <<>>, history |-> EmptyData, call |-> NoSearch]

\* A call of engine.search(query, max_results, history, mode)
Search(query, max_results, mode) ==
    /\ found' = [found EXCEPT
                   !.call = [op |-> "search", query |-> query, mode |-> mode,
                             max_results |-> max_results,
                             results |-> search(found.entries, query, max_results,
                                                found.history, mode)]]
    /\ UNCHANGED <<hvars, ivars, cvars, bvars, wvars, nvars>>

\* history.rs: recent_launches ascending instead of descending
RecentOrders_Ascending(d) ==
    LET n == Cardinality(DOMAIN d.global)
    IN  { s \in [1..n -> DOMAIN d.global] :
            /\ \A i, j \in 1..n : i # j => s[i] # s[j]
            /\ \A i, j \in 1..n :
                  i < j => d.global[s[i]].last_launched <= d.global[s[j]].last_launched }

\* history.rs: the orders recent_launches can sort the launched paths into.
\* The paths come out of a HashMap in any order and the sort is stable, so
\* paths launched at the same time can come in either order.
RecentOrders(d) ==
    LET n == Cardinality(DOMAIN d.global)
    IN  { s \in [1..n -> DOMAIN d.global] :
            /\ \A i, j \in 1..n : i # j => s[i] # s[j]
            /\ \A i, j \in 1..n :
                  i < j => d.global[s[i]].last_launched >= d.global[s[j]].last_launched }

\* HistoryStore::recent_launches: the lists it can return
recent_launches(d, max_history_display) ==
    { SubSeq(s, 1, IF max_history_display < Len(s) THEN max_history_display ELSE Len(s)) :
        s \in RecentOrders(d) }

\* path_to_entry.get(path): of the entries with this target path the map
\* holds the last one inserted
PathToEntry(entries, path) ==
    LET at == { i \in 1..Len(entries) : entries[i].target_path = path }
    IN  IF at = {} THEN <<>>
        ELSE <<entries[CHOOSE i \in at : \A j \in at : j <= i]>>

\* filter_map over the launched paths, in order
RECURSIVE LookupAll(_, _)
LookupAll(entries, paths) ==
    IF paths = <<>> THEN <<>>
    ELSE LET e == PathToEntry(entries, Head(paths))
         IN  (IF e = <<>> THEN <<>> ELSE <<SearchResult(e[1])>>)
                \o LookupAll(entries, Tail(paths))

\* SearchEngine::recent_history, given what recent_launches returned
recent_history(entries, launches, max_results) ==
    LookupAll(entries,
              SubSeq(launches, 1,
                     IF max_results < Len(launches) THEN max_results ELSE Len(launches)))

\* A call of engine.recent_history(history, max_results) on a store loaded
\* with max_history_display
RecentHistory(max_results, max_history_display) ==
    /\ \E launches \in recent_launches(found.history, max_history_display) :
          found' = [found EXCEPT
                      !.call = [op |-> "recent", query |-> <<>>, mode |-> "Prefix",
                                max_results |-> max_results,
                                results |-> recent_history(found.entries, launches,
                                                           max_results)]]
    /\ UNCHANGED <<hvars, ivars, cvars, bvars, wvars, nvars>>

NextSearch ==
    \/ \E query \in SearchQueries, max_results \in 0..MaxResults, mode \in SearchModes :
          Search(query, max_results, mode)
    \/ \E max_results \in 0..MaxResults, max_history_display \in 0..MaxResults :
          RecentHistory(max_results, max_history_display)

---------------------------------------------------------------------------
(* folder.rs: list_folder *)

\* The name of the row returned for a directory that cannot be read (a fixed
\* message in the source)
ErrorRowName == <<"!">>

\* matches_filter(name, filter, mode)
matches_filter(name, filter, mode) ==
    LET name_lower == to_lowercase(name)
        filter_lower == to_lowercase(filter)
    IN  CASE mode = "Prefix" -> StartsWith(name_lower, filter_lower)
          [] mode = "Substring" -> Find(name_lower, filter_lower) # <<>>
          [] mode = "Fuzzy" -> fuzzy_match(name_lower, filter_lower) # <<>>

\* dir.join(name), which entry.path() returns: no second separator after a
\* directory path that ends in one
PathJoin(dir_path, name) ==
    IF dir_path # <<>> /\ IsSeparator(dir_path[Len(dir_path)]) THEN dir_path \o name
    ELSE dir_path \o <<"\\">> \o name

\* The filter_map of list_folder over the directory's items, in the order
\* read_dir yields them
RECURSIVE FolderRows(_, _, _, _, _)
FolderRows(dir_path, items, filter, mode, show_hidden_system) ==
    IF items = <<>> THEN <<>>
    ELSE LET item == Head(items)
             rest == FolderRows(dir_path, Tail(items), filter, mode, show_hidden_system)
         IN  IF ~show_hidden_system /\ ~item.visible THEN rest
             ELSE IF filter # <<>> /\ ~matches_filter(item.name, filter, mode) THEN rest
             ELSE << [name |-> item.name,
                      path |-> PathJoin(dir_path, item.name),
                      is_folder |-> item.is_dir,
                      is_error |-> FALSE] >> \o rest

\* The expansion count the comparator uses: 0 for a file
RowCount(history, row) ==
    IF row.is_folder THEN AsI64(folder_expansion_count(history, row.path)) ELSE 0

\* The comparator of list_folder's sort_by: TRUE when a goes strictly first
RowBefore(history, a, b) ==
    IF a.is_folder # b.is_folder THEN a.is_folder
    ELSE IF RowCount(history, a) # RowCount(history, b)
    THEN RowCount(history, a) > RowCount(history, b)
    ELSE StrCmp(to_lowercase(a.name), to_lowercase(b.name)) < 0

RECURSIVE InsertRow(_, _, _)
InsertRow(history, sorted, x) ==
    IF sorted = <<>> THEN <<x>>
    ELSE IF RowBefore(history, x, Head(sorted)) THEN <<x>> \o sorted
    ELSE <<Head(sorted)>> \o InsertRow(history, Tail(sorted), x)

RECURSIVE SortRows(_, _)
SortRows(history, rows) ==
    IF rows = <<>> THEN <<>>
    ELSE InsertRow(history, SortRows(history, SubSeq(rows, 1, Len(rows) - 1)),
                   rows[Len(rows)])

\* list_folder returning an empty list for a directory it cannot read
list_folder_EmptyOnError(dir, filter, mode, show_hidden_system, history, max_results) ==
    IF ~dir.readable THEN <<>>
    ELSE LET sorted == SortRows(history, FolderRows(dir.path, dir.items, filter, mode,
                                                    show_hidden_system))
         IN  SubSeq(sorted, 1, IF max_results < Len(sorted) THEN max_results
                               ELSE Len(sorted))

\* list_folder(dir, filter, mode, show_hidden_system, history, max_results).
\* dir is what read_dir finds: whether it can be read, and its items in the
\* order they are yielded.
list_folder(dir, filter, mode, show_hidden_system, history, max_results) ==
    IF ~dir.readable
    THEN << [name |-> ErrorRowName, path |-> dir.path, is_folder |-> FALSE,
             is_error |-> TRUE] >>
    ELSE LET sorted == SortRows(history, FolderRows(dir.path, dir.items, filter, mode,
                                                    show_hidden_system))
         IN  SubSeq(sorted, 1, IF max_results < Len(sorted) THEN max_results
                               ELSE Len(sorted))

DirItem(name, is_dir, visible) == [name |-> name, is_dir |-> is_dir, visible |-> visible]

\* The directories list_folder is called on
Directories ==
    { [readable |-> FALSE, path |-> <<"d">>, items |-> <<>>],
      [readable |-> TRUE, path |-> <<"d">>, items |-> <<>>],
      [readable |-> TRUE, path |-> <<"d">>,
       items |-> << DirItem(<<"b">>, FALSE, TRUE),
                    DirItem(<<"a", "b">>, TRUE, TRUE),
                    DirItem(<<"A">>, TRUE, TRUE),
                    DirItem(<<"a", ".", "e", "x", "e">>, FALSE, FALSE) >>],
      [readable |-> TRUE, path |-> <<"d", "\\", "a">>,
       items |-> << DirItem(<<"!">>, FALSE, TRUE),
                    DirItem(<<"B">>, TRUE, FALSE) >>] }

FolderHistories ==
    { EmptyData,
      [ global |-> EmptyMap,
        query |-> EmptyMap,
        folder_expansion |-> [f \in {<<"d", "\\", "a", "b">>, <<"d", "\\", "b">>} |->
                                  U32(2)] ] }

FolderFilters == { <<>>, <<" ">>, <<"a">>, <<"A", "b">>, <<"b">> }

NoList ==
    [op |-> "none", filter |-> <<>>, mode |-> "Prefix", show_hidden_system |-> FALSE,
     max_results |-> 0, results |-> <<>>]

NoFolder ==
    [dir |-> [readable |-> FALSE, path |-> <<>>, items |-> <<>>],
     history |-> EmptyData, call |-> NoList]

\* A call of list_folder on the directory
ListFolder(filter, mode, show_hidden_system, max_results) ==
    /\ listed' = [listed EXCEPT
                    !.call = [op |-> "list_folder", filter |-> filter, mode |-> mode,
                              show_hidden_system |-> show_hidden_system,
                              max_results |-> max_results,
                              results |-> list_folder(listed.dir, filter, mode,
                                                      show_hidden_system,
                                                      listed.history, max_results)]]
    /\ UNCHANGED <<hvars, ivars, cvars, bvars, wvars, svars, tvars, uvars>>

NextFolder ==
    \E filter \in FolderFilters, mode \in SearchModes, show_hidden_system \in BOOLEAN,
       max_results \in 0..MaxResults :
        ListFolder(filter, mode, show_hidden_system, max_results)

---------------------------------------------------------------------------
(* src/indexer.rs: scan_all. A directory is a list of items in the order      *)
(* read_dir yields them; an item is a file (stem, extension) or a directory   *)
(* (name in stem, its items in children).                                     *)

FileItem(stem, ext) == [stem |-> stem, ext |-> <<ext>>, is_dir |-> FALSE, children |-> <<>>]

DirNode(name, children) == [stem |-> name, ext |-> <<>>, is_dir |-> TRUE, children |-> children]

\* entry.path(): the directory's path joined with the item's file name
ItemPath(dir, item) ==
    dir \o <<"\\">> \o item.stem
        \o (IF item.ext = <<>> THEN <<>> ELSE <<".">> \o item.ext[1])

\* `if seen.insert(key) { entries.push(app) }` with the test left out
Push_NoSeen(st, key, app) ==
    [entries |-> Append(st.entries, app), seen |-> st.seen \cup {key}]

\* `if seen.insert(key) { entries.push(app) }` on the (entries, seen) pair
Push(st, key, app) ==
    IF key \in st.seen THEN st
    ELSE [entries |-> Append(st.entries, app), seen |-> st.seen \cup {key}]

\* parse_lnk(path): the entry of a shortcut
parse_lnk(dir, item) == AppEntry(item.stem, ItemPath(dir, item), FALSE)

\* scan_directory_lnk(dir, entries, seen), over the items of dir
RECURSIVE scan_directory_lnk(_, _, _)
scan_directory_lnk(dir, items, st) ==
    IF items = <<>> THEN st
    ELSE LET item == Head(items)
             after ==
                 IF item.is_dir
                 THEN scan_directory_lnk(ItemPath(dir, item), item.children, st)
                 ELSE IF item.ext = << <<"l", "n", "k">> >>
                 THEN Push(st, to_lowercase(item.stem), parse_lnk(dir, item))
                 ELSE st
         IN  scan_directory_lnk(dir, Tail(items), after)

\* The key of a folder in the seen set: "folder:" followed by the lowercase name
FolderKey(name) == <<"f", "o", "l", "d", "e", "r", ":">> \o to_lowercase(name)

\* scan_directory_with_extensions(dir, extensions, include_folders, entries,
\* seen), over the items of dir
RECURSIVE scan_directory_with_extensions(_, _, _, _, _)
scan_directory_with_extensions(dir, items, extensions, include_folders, st) ==
    IF items = <<>> THEN st
    ELSE LET item == Head(items)
             path == ItemPath(dir, item)
             found_dir ==
                 IF include_folders /\ item.stem # <<>>
                 THEN Push(st, FolderKey(item.stem), AppEntry(item.stem, path, TRUE))
                 ELSE st
             after ==
                 IF item.is_dir
                 THEN scan_directory_with_extensions(path, item.children, extensions,
                                                     include_folders, found_dir)
                 ELSE IF /\ item.ext # <<>>
                         /\ (<<".">> \o to_lowercase(item.ext[1])) \in extensions
                         /\ item.stem # <<>>
                 THEN Push(st, to_lowercase(item.stem), AppEntry(item.stem, path, FALSE))
                 ELSE st
         IN  scan_directory_with_extensions(dir, Tail(items), extensions,
                                            include_folders, after)

\* The roots of a file system: read_dir of a root fails when it is not readable
RootItems(fs, root) == IF fs[root].readable THEN fs[root].items ELSE <<>>

\* The .lnk scans of scan_all, over the standard locations and the additional
\* paths, in order
RECURSIVE ScanLnkRoots(_, _, _)
ScanLnkRoots(fs, roots, st) ==
    IF roots = <<>> THEN st
    ELSE ScanLnkRoots(fs, Tail(roots),
                      scan_directory_lnk(<<Head(roots)>>, RootItems(fs, Head(roots)), st))

\* The loop of scan_all over scan_paths
RECURSIVE ScanPaths(_, _, _)
ScanPaths(fs, scan_paths, st) ==
    IF scan_paths = <<>> THEN st
    ELSE LET sp == Head(scan_paths)
             exts == { to_lowercase(e) : e \in sp.extensions }
         IN  ScanPaths(fs, Tail(scan_paths),
                       scan_directory_with_extensions(<<sp.path>>, RootItems(fs, sp.path),
                                                      exts, sp.include_folders, st))

\* scan_all(additional_paths, scan_paths) on a file system; lnk_roots are the
\* standard locations followed by additional_paths
scan_all(fs, lnk_roots, scan_paths) ==
    ScanPaths(fs, scan_paths,
              ScanLnkRoots(fs, lnk_roots, [entries |-> <<>>, seen |-> {}])).entries

Ab == <<"A", "b">>

ab == <<"a", "b">>

exe == <<"e", "x", "e">>

lnk == <<"l", "n", "k">>

\* The file systems a scan runs over: the roots "menu" and "apps"
FileSystems ==
    { [r \in {"menu", "apps"} |-> [readable |-> FALSE, items |-> <<>>]],
      [r \in {"menu", "apps"} |->
          IF r = "menu"
          THEN [readable |-> TRUE,
                items |-> << FileItem(Ab, lnk),
                             DirNode(<<"s">>, << FileItem(ab, lnk),
                                                 FileItem(<<"b">>, lnk),
                                                 FileItem(<<"p">>, <<"L", "N", "K">>) >>) >>]
          ELSE [readable |-> TRUE,
                items |-> << FileItem(ab, exe),
                             DirNode(<<"B">>, << FileItem(<<"B">>, <<"E", "X", "E">>),
                                                 DirNode(<<"b">>, << FileItem(<<"a">>, exe) >>),
                                                 FileItem(<<"a">>, <<"x">>) >>),
                             FileItem(<<"A">>, exe) >>]],
      [r \in {"menu", "apps"} |->
          IF r = "menu"
          THEN [readable |-> TRUE, items |-> << DirNode(ab, <<>>), FileItem(<<"p">>, exe) >>]
          ELSE [readable |-> TRUE,
                items |-> << DirNode(ab, << FileItem(Ab, exe) >>),
                             DirNode(Ab, << FileItem(ab, <<"x">>) >>) >>]],
      [r \in {"menu", "apps"} |->
          IF r = "menu"
          THEN [readable |-> FALSE, items |-> << FileItem(ab, lnk) >>]
          ELSE [readable |-> TRUE,
                items |-> << FileItem(ab, exe), FileItem(ab, <<"x">>),
                             FileItem(ab, lnk) >>]],
      [r \in {"menu", "apps"} |->
          [readable |-> TRUE,
           items |-> IF r = "menu" THEN << FileItem(<<"a">>, lnk) >>
                     ELSE << DirNode(<<"a">>, <<>>) >>]] }

ScanPath(path, extensions, include_folders) ==
    [path |-> path, extensions |-> extensions, include_folders |-> include_folders]

\* The values of config.paths.additional, after the standard locations
LnkRoots == { <<>>, <<"menu">>, <<"apps">>, <<"menu", "menu">>, <<"menu", "apps">> }

\* The values of config.paths.scan
ScanPathLists ==
    { <<>>,
      << ScanPath("apps", { <<".", "e", "x", "e">> }, TRUE) >>,
      << ScanPath("apps", { <<".", "E", "X", "E">>, <<".", "x">> }, FALSE) >>,
      << ScanPath("apps", { <<".", "e", "x", "e">> }, FALSE),
         ScanPath("apps", { <<".", "x">> }, TRUE) >>,
      << ScanPath("menu", { <<".", "e", "x", "e">>, <<".", "l", "n", "k">> }, TRUE),
         ScanPath("apps", { <<".", "e", "x", "e">> }, TRUE) >> }

NoScanAll == [op |-> "none", lnk_roots |-> <<>>, scan_paths |-> <<>>, entries |-> <<>>]

NoTree ==
    [fs |-> [r \in {"menu", "apps"} |-> [readable |-> FALSE, items |-> <<>>]],
     call |-> NoScanAll]

\* A call of scan_all
ScanAll(lnk_roots, scan_paths) ==
    /\ tree' = [tree EXCEPT
                  !.call = [op |-> "scan_all", lnk_roots |-> lnk_roots,
                            scan_paths |-> scan_paths,
                            entries |-> scan_all(tree.fs, lnk_roots, scan_paths)]]
    /\ UNCHANGED <<hvars, ivars, cvars, bvars, wvars, svars, fvars, uvars>>

\* The file system changes between scans
Touch(fs) ==
    /\ tree' = [fs |-> fs, call |-> NoScanAll]
    /\ UNCHANGED <<hvars, ivars, cvars, bvars, wvars, svars, fvars, uvars>>

NextScan ==
    \/ \E lnk_roots \in LnkRoots, scan_paths \in ScanPathLists : ScanAll(lnk_roots, scan_paths)
    \/ \E fs \in FileSystems : Touch(fs)

---------------------------------------------------------------------------
(* The search window: the Win32 shell (src/window.rs wired by src/main.rs)  *)
(* and the egui shell (src/app.rs)                                          *)

AsciiAlphabetic ==
    {"a", "b", "c", "d", "e", "f", "g", "h", "i", "j", "k", "l", "m", "n", "o", "p",
     "q", "r", "s", "t", "u", "v", "w", "x", "y", "z",
     "A", "B", "C", "D", "E", "F", "G", "H", "I", "J", "K", "L", "M", "N", "O", "P",
     "Q", "R", "S", "T", "U", "V", "W", "X", "Y", "Z"}

\* trim_end_matches('\\') after replace('/', "\\")
RECURSIVE TrimEndSeparators(_)
TrimEndSeparators(s) ==
    IF s = <<>> THEN <<>>
    ELSE IF IsSeparator(s[Len(s)]) THEN TrimEndSeparators(SubSeq(s, 1, Len(s) - 1))
    ELSE s

\* The number of non-empty parts of rest.split('\\')
PartCount(rest) ==
    Cardinality({ i \in 1..Len(rest) :
                    /\ ~IsSeparator(rest[i])
                    /\ (i = 1 \/ IsSeparator(rest[i - 1])) })

\* folder::is_navigation_root: a drive root or the share of a UNC path
is_navigation_root(path) ==
    LET trimmed == TrimEndSeparators(Trim(path))
    IN  IF Len(trimmed) = 2
        THEN trimmed[1] \in AsciiAlphabetic /\ trimmed[2] = ":"
        ELSE IF Len(trimmed) >= 2 /\ IsSeparator(trimmed[1]) /\ IsSeparator(trimmed[2])
        THEN PartCount(SubSeq(trimmed, 3, Len(trimmed))) <= 2
        ELSE FALSE

\* Path::parent of a path with a drive prefix or none: the path without its
\* last component; the separator after the drive prefix stays. None for a
\* path that is a root; Some("") for a single relative component.
PathParent(path) ==
    LET t == TrimEndSeparators(path)
        seps == { i \in 1..Len(t) : IsSeparator(t[i]) }
    IN  IF t = <<>> THEN <<>>
        ELSE IF seps = {} THEN << <<>> >>
        ELSE LET k == CHOOSE i \in seps : \A j \in seps : j <= i
                 head == TrimEndSeparators(SubSeq(t, 1, k - 1))
             IN  IF Len(head) = 2 /\ head[2] = ":" THEN <<SubSeq(t, 1, k)>>
                 ELSE <<head>>

\* parent_for_navigation without the root check
parent_for_navigation_NoRoot(current_dir) ==
    LET parent == PathParent(current_dir)
    IN  IF parent = <<>> THEN <<>>
        ELSE IF parent[1] = <<>> THEN <<>>
        ELSE parent

\* folder::parent_for_navigation(current_dir): None or Some(parent)
parent_for_navigation(current_dir) ==
    IF is_navigation_root(current_dir) THEN <<>>
    ELSE LET parent == PathParent(current_dir)
         IN  IF parent = <<>> THEN <<>>
             ELSE IF parent[1] = <<>> THEN <<>>
             ELSE parent

\* The folders the shell can browse
DriveRoot == <<"c", ":", "\\">>

DirT == DriveRoot \o <<"t">>

DirX == DirT \o <<"\\", "x">>

FileA == DirT \o <<"\\", "a">>

\* What read_dir finds under a path: DirX cannot be read, and neither can a
\* path that is no folder
ReadDir(path) ==
    IF path = DriveRoot
    THEN [readable |-> TRUE, path |-> path, items |-> << DirItem(<<"t">>, TRUE, TRUE) >>]
    ELSE IF path = DirT
    THEN [readable |-> TRUE, path |-> path,
          items |-> << DirItem(<<"x">>, TRUE, TRUE), DirItem(<<"a">>, FALSE, TRUE) >>]
    ELSE [readable |-> FALSE, path |-> path, items |-> <<>>]

\* The entry lists an index build can deliver
UiCatalogs ==
    { << AppEntry(<<"t">>, DirT, TRUE),
         AppEntry(<<"t", "a">>, FileA, FALSE),
         AppEntry(<<"t", "x">>, DirX, TRUE) >>,
      << AppEntry(<<"t", "a">>, FileA, FALSE) >> }

\* The history the shell loads at start
UiHistories ==
    { EmptyData,
      [ global |-> [p \in {FileA} |-> GlobalEntry(U32(1), 0)],
        query |-> EmptyMap,
        folder_expansion |-> EmptyMap ] }

\* What the user can type into the edit box
UiQueries == { <<>>, <<" ">>, <<"t">>, <<" ", "/", "o">> }

\* RuntimeSettings: normal_mode, folder_mode, show_hidden_system
UiNormalMode == "Prefix"

UiFolderMode == "Prefix"

UiShowHiddenSystem == FALSE

\* The number of launches and folder expansions in one run
MaxUiOps == 2

NoUi ==
    [shell |-> "none", shown |-> FALSE, query |-> <<>>, results |-> <<>>, selected |-> 0,
     folder_state |-> <<>>, history |-> EmptyData, entries |-> <<>>,
     settings_open |-> FALSE, launches |-> 0, ops |-> 0, snapshot |-> <<>>,
     last |-> [op |-> "none", arg |-> 0]]

\* FolderExpansionState
FolderExpansionState(current_dir, saved_results, saved_selected, saved_query) ==
    [current_dir |-> current_dir, saved_results |-> saved_results,
     saved_selected |-> saved_selected, saved_query |-> saved_query]

\* results.get(selected): None or Some(row)
SelectedRow(s) ==
    IF s.selected < Len(s.results) THEN <<s.results[s.selected + 1]>> ELSE <<>>

\* HistoryStore::record_folder_expansion: the stores it can leave (prune in save)
UiRecordExpansion(h, folder_path) ==
    prune(record_folder_expansion_mutate(h, folder_path).data, MaxTopN)

\* HistoryStore::record_launch: the stores it can leave
UiRecordLaunch(h, path, query) ==
    UNION { prune(record_launch_mutate(h, path, query, now).data, MaxTopN) : now \in Times }

\* list_folder as the shells call it
UiListFolder(s, dir, filter) ==
    list_folder(ReadDir(dir), filter, UiFolderMode, UiShowHiddenSystem, s.history,
                MaxResults)

\* engine.recent_history(&history, max_history_display): the lists it can return
UiRecentHistory(s) ==
    { recent_history(s.entries, launches, MaxResults) :
        launches \in recent_launches(s.history, MaxResults) }

---------------------------------------------------------------------------
(* src/window.rs and the callbacks of src/main.rs 264-339 *)

\* on_query_changed (main.rs 267-279): the result lists it can return
on_query_changed(s, query) ==
    IF query = <<>> THEN UiRecentHistory(s)
    ELSE { search(s.entries, query, MaxResults, s.history, UiNormalMode) }

\* handle_query_changed, run for EN_CHANGE with `text` in the edit control
handle_query_changed(s, text) ==
    IF s.folder_state # <<>>
    THEN { [s EXCEPT !.query = text,
                     !.results = UiListFolder(s, s.folder_state[1].current_dir, text),
                     !.selected = 0] }
    ELSE { [s EXCEPT !.query = text, !.results = r, !.selected = 0] :
             r \in on_query_changed(s, text) }

\* SetWindowTextW on the single-line edit control: the text is set and the
\* control sends EN_CHANGE to the window before the call returns
SetWindowTextW(s, text) == handle_query_changed(s, text)

\* window::show_window
show_window(s) ==
    SetWindowTextW([s EXCEPT !.results = <<>>, !.selected = 0, !.folder_state = <<>>,
                             !.shown = TRUE], <<>>)

\* window::hide_window
hide_window(s) == [s EXCEPT !.shown = FALSE]

\* window::enter_folder_expansion, with on_folder_expand (main.rs 298-312)
Win32_enter_folder_expansion(s, folder_path) ==
    UNION {
        LET h1 == [s EXCEPT !.history = h, !.ops = s.ops + 1]
            new_results == UiListFolder(h1, folder_path, <<>>)
            fs == IF s.folder_state # <<>>
                  THEN [s.folder_state[1] EXCEPT !.current_dir = folder_path]
                  ELSE FolderExpansionState(folder_path, s.results, s.selected, s.query)
        IN  SetWindowTextW([h1 EXCEPT !.folder_state = <<fs>>, !.results = new_results,
                                      !.selected = 0], <<>>)
        : h \in UiRecordExpansion(s.history, folder_path) }

\* window::navigate_folder_up
Win32_navigate_folder_up(s) ==
    LET current_filter == s.query
        parent == IF s.folder_state = <<>> THEN <<>>
                  ELSE parent_for_navigation(s.folder_state[1].current_dir)
        moved == IF parent = <<>> THEN s
                 ELSE [s EXCEPT !.folder_state = <<[s.folder_state[1] EXCEPT
                                                      !.current_dir = parent[1]]>>,
                                !.results = UiListFolder(s, parent[1], <<>>),
                                !.selected = 0]
    IN  IF current_filter # <<>> THEN SetWindowTextW(moved, <<>>) ELSE { moved }

\* exit_folder_expansion that leaves the edit text alone
Win32_exit_folder_expansion_NoRestore(s) ==
    IF s.folder_state = <<>> THEN { s }
    ELSE { [s EXCEPT !.folder_state = <<>>] }

\* window::exit_folder_expansion: the states it can leave (unchanged when
\* there is no folder state, and the caller then hides the window)
Win32_exit_folder_expansion(s) ==
    IF s.folder_state = <<>> THEN { s }
    ELSE LET fs == s.folder_state[1]
         IN  SetWindowTextW([s EXCEPT !.folder_state = <<>>,
                                      !.results = fs.saved_results,
                                      !.selected = fs.saved_selected], fs.saved_query)

\* on_launch (main.rs 280-287)
on_launch(s, result, query) ==
    IF result.is_folder THEN { [s EXCEPT !.launches = s.launches + 1, !.ops = s.ops + 1] }
    ELSE { [s EXCEPT !.launches = s.launches + 1, !.history = h, !.ops = s.ops + 1] :
             h \in UiRecordLaunch(s.history, result.path, query) }

\* handle_edit_keydown, VK_RETURN, with the row check left out
Win32_Return_NoErrorCheck(s) ==
    IF normalize_query(s.query) = <<"/", "o">>
    THEN { hide_window([s EXCEPT !.settings_open = TRUE]) }
    ELSE LET selected == SelectedRow(s)
         IN  IF selected = <<>> THEN { s }
             ELSE { hide_window(n) : n \in on_launch(s, selected[1], s.query) }

\* handle_edit_keydown, VK_RETURN: on_command (main.rs 288-296), then on_launch
Win32_Return(s) ==
    IF normalize_query(s.query) = <<"/", "o">>
    THEN { hide_window([s EXCEPT !.settings_open = TRUE]) }
    ELSE LET selected == SelectedRow(s)
         IN  IF selected = <<>> THEN { s }
             ELSE IF selected[1].is_error THEN { s }
             ELSE { hide_window(n) : n \in on_launch(s, selected[1], s.query) }

---------------------------------------------------------------------------
(* src/app.rs *)

\* refresh_results without the clamp of the selected index
refresh_results_NoClamp(s) ==
    IF s.folder_state # <<>>
    THEN { [s EXCEPT !.results = UiListFolder(s, s.folder_state[1].current_dir, s.query)] }
    ELSE IF Trim(s.query) = <<>>
    THEN { [s EXCEPT !.results = r] : r \in UiRecentHistory(s) }
    ELSE { [s EXCEPT !.results = search(s.entries, s.query, MaxResults, s.history,
                                        UiNormalMode)] }

\* refresh_results: list_folder, recent_history or search, then the clamp
refresh_results(s) ==
    LET Clamp(n) == IF n.results = <<>> THEN [n EXCEPT !.selected = 0]
                    ELSE IF n.selected >= Len(n.results)
                    THEN [n EXCEPT !.selected = Len(n.results) - 1]
                    ELSE n
        listed_ == IF s.folder_state # <<>>
                   THEN { [s EXCEPT !.results =
                              UiListFolder(s, s.folder_state[1].current_dir, s.query)] }
                   ELSE IF Trim(s.query) = <<>>
                   THEN { [s EXCEPT !.results = r] : r \in UiRecentHistory(s) }
                   ELSE { [s EXCEPT !.results = search(s.entries, s.query, MaxResults,
                                                       s.history, UiNormalMode)] }
    IN  { Clamp(n) : n \in listed_ }

\* show_search_window
show_search_window(s) ==
    refresh_results([s EXCEPT !.shown = TRUE, !.query = <<>>, !.selected = 0,
                              !.folder_state = <<>>])

\* hide_search_window
hide_search_window(s) == [s EXCEPT !.shown = FALSE]

\* move_selection_down without the bound
move_selection_down_NoBound(s) == [s EXCEPT !.selected = s.selected + 1]

\* move_selection_up (app.rs) and the VK_UP arm (window.rs)
move_selection_up(s) ==
    IF s.selected > 0 THEN [s EXCEPT !.selected = s.selected - 1] ELSE s

\* move_selection_down (app.rs) and the VK_DOWN arm (window.rs)
move_selection_down(s) ==
    IF s.results # <<>> /\ s.selected < Len(s.results) - 1
    THEN [s EXCEPT !.selected = s.selected + 1]
    ELSE s

\* enter_folder_expansion that takes the snapshot on every entry
enter_folder_expansion_Resnapshot(s, folder_path) ==
    [s EXCEPT !.folder_state =
                 <<FolderExpansionState(folder_path, s.results, s.selected, s.query)>>,
              !.query = <<>>,
              !.results = UiListFolder(s, folder_path, <<>>),
              !.selected = 0]

\* enter_folder_expansion
enter_folder_expansion(s, folder_path) ==
    LET fs == IF s.folder_state = <<>>
              THEN FolderExpansionState(folder_path, s.results, s.selected, s.query)
              ELSE [s.folder_state[1] EXCEPT !.current_dir = folder_path]
    IN  [s EXCEPT !.folder_state = <<fs>>,
                  !.query = <<>>,
                  !.results = UiListFolder(s, folder_path, <<>>),
                  !.selected = 0]

\* navigate_folder_up
navigate_folder_up(s) ==
    IF s.folder_state = <<>> THEN s
    ELSE LET parent == parent_for_navigation(s.folder_state[1].current_dir)
         IN  IF parent = <<>> THEN s
             ELSE [s EXCEPT !.folder_state = <<[s.folder_state[1] EXCEPT
                                                  !.current_dir = parent[1]]>>,
                            !.query = <<>>,
                            !.results = UiListFolder(s, parent[1], <<>>),
                            !.selected = 0]

\* exit_folder_expansion
exit_folder_expansion(s) ==
    IF s.folder_state = <<>> THEN s
    ELSE LET fs == s.folder_state[1]
         IN  [s EXCEPT !.folder_state = <<>>, !.query = fs.saved_query,
                       !.results = fs.saved_results, !.selected = fs.saved_selected]

\* activate_selected with the is_error return left out
activate_selected_NoErrorCheck(s) ==
    IF normalize_query(s.query) = <<"/", "o">>
    THEN { [s EXCEPT !.settings_open = TRUE, !.shown = FALSE] }
    ELSE LET result == SelectedRow(s)
         IN  IF result = <<>> THEN { s }
             ELSE { hide_search_window(n) : n \in on_launch(s, result[1], s.query) }

\* activate_selected
activate_selected(s) ==
    IF normalize_query(s.query) = <<"/", "o">>
    THEN { [s EXCEPT !.settings_open = TRUE, !.shown = FALSE] }
    ELSE LET result == SelectedRow(s)
         IN  IF result = <<>> THEN { s }
             ELSE IF result[1].is_error THEN { s }
             ELSE { hide_search_window(n) : n \in on_launch(s, result[1], s.query) }

\* handle_search_keyboard, ArrowRight
Egui_ArrowRight(s) ==
    LET result == SelectedRow(s)
    IN  IF result # <<>> /\ result[1].is_folder
        THEN { enter_folder_expansion([s EXCEPT !.history = h, !.ops = s.ops + 1],
                                      result[1].path) :
                 h \in UiRecordExpansion(s.history, result[1].path) }
        ELSE { s }

\* handle_search_keyboard, ArrowLeft
Egui_ArrowLeft(s) ==
    IF s.folder_state # <<>> THEN { navigate_folder_up(s) }
    ELSE LET result == SelectedRow(s)
             parent == IF result = <<>> THEN <<>>
                       ELSE parent_for_navigation(result[1].path)
         IN  IF parent = <<>> THEN { s }
             ELSE { enter_folder_expansion([s EXCEPT !.history = h, !.ops = s.ops + 1],
                                           parent[1]) :
                      h \in UiRecordExpansion(s.history, parent[1]) }

---------------------------------------------------------------------------
(* The events the search window receives *)

\* A handler ran: `n` is the state it left; keep what was there before
Handled(op, arg, n) ==
    /\ n.ops <= MaxUiOps
    /\ ui' = [n EXCEPT
                !.snapshot = IF n.folder_state = <<>> THEN <<>>
                             ELSE IF ui.folder_state = <<>>
                             THEN <<[query |-> ui.query, results |-> ui.results,
                                     selected |-> ui.selected]>>
                             ELSE ui.snapshot,
                !.last = [op |-> op, arg |-> arg]]
    /\ UNCHANGED <<hvars, ivars, cvars, bvars, wvars, svars, fvars, tvars>>

\* The hotkey, the tray icon or the start of the program shows the window
UiShow ==
    \E n \in (IF ui.shell = "win32" THEN show_window(ui) ELSE show_search_window(ui)) :
        Handled("show", 0, n)

\* Focus is lost, or the hotkey toggles the window away
UiHide ==
    /\ ui.shown
    /\ Handled("hide", 0, IF ui.shell = "win32" THEN hide_window(ui)
                          ELSE hide_search_window(ui))

\* The user edits the text: EN_CHANGE (window.rs), input_response.changed()
\* (app.rs 656-659)
UiEdit(text) ==
    /\ ui.shown
    /\ text # ui.query
    /\ \E n \in (IF ui.shell = "win32" THEN handle_query_changed(ui, text)
                 ELSE refresh_results([ui EXCEPT !.query = text, !.selected = 0])) :
          Handled("edit", 0, n)

UiUp ==
    /\ ui.shown
    /\ Handled("up", 0, move_selection_up(ui))

UiDown ==
    /\ ui.shown
    /\ Handled("down", 0, move_selection_down(ui))

\* A click on a row (app.rs 687-689)
UiClick(idx) ==
    /\ ui.shown
    /\ ui.shell = "egui"
    /\ idx < Len(ui.results)
    /\ Handled("click", idx, [ui EXCEPT !.selected = idx])

\* A double click on a row (app.rs 690-693)
UiDoubleClick(idx) ==
    /\ ui.shown
    /\ ui.shell = "egui"
    /\ idx < Len(ui.results)
    /\ \E n \in activate_selected([ui EXCEPT !.selected = idx]) :
          Handled("activate", idx, n)

\* Enter
UiEnter ==
    /\ ui.shown
    /\ \E n \in (IF ui.shell = "win32" THEN Win32_Return(ui) ELSE activate_selected(ui)) :
          Handled("activate", ui.selected, n)

\* The right arrow
UiRight ==
    /\ ui.shown
    /\ \E n \in (IF ui.shell = "win32"
                 THEN LET info == SelectedRow(ui)
                      IN  IF info # <<>> /\ info[1].is_folder
                          THEN Win32_enter_folder_expansion(ui, info[1].path)
                          ELSE { ui }
                 ELSE Egui_ArrowRight(ui)) :
          Handled("right", 0, n)

\* The left arrow
UiLeft ==
    /\ ui.shown
    /\ \E n \in (IF ui.shell = "win32"
                 THEN (IF ui.folder_state # <<>> THEN Win32_navigate_folder_up(ui)
                       ELSE { ui })
                 ELSE Egui_ArrowLeft(ui)) :
          Handled("left", 0, n)

\* Escape: leave folder mode, or hide the window when not in it
UiEscape ==
    /\ ui.shown
    /\ \E n \in (IF ui.shell = "win32"
                 THEN (IF ui.folder_state # <<>> THEN Win32_exit_folder_expansion(ui)
                       ELSE { hide_window(ui) })
                 ELSE (IF ui.folder_state # <<>> THEN { exit_folder_expansion(ui) }
                       ELSE { hide_search_window(ui) })) :
          Handled("escape", 0, n)

\* A rebuild delivered its entries: WM_REBUILD_DONE (main.rs 389-408),
\* InternalEvent::RebuildDone (app.rs 219-234)
UiRebuildDone(entries) ==
    /\ entries # ui.entries
    /\ \E n \in (IF ui.shell = "win32" THEN { [ui EXCEPT !.entries = entries] }
                 ELSE refresh_results([ui EXCEPT !.entries = entries])) :
          Handled("rebuild_done", 0, n)

NextUi ==
    \/ UiShow
    \/ UiHide
    \/ \E text \in UiQueries : UiEdit(text)
    \/ UiUp
    \/ UiDown
    \/ \E idx \in 0..(MaxResults - 1) : UiClick(idx)
    \/ \E idx \in 0..(MaxResults - 1) : UiDoubleClick(idx)
    \/ UiEnter
    \/ UiRight
    \/ UiLeft
    \/ UiEscape
    \/ \E entries \in UiCatalogs : UiRebuildDone(entries)

---------------------------------------------------------------------------
(* The specifications: each drives one component and leaves the others idle *)

HistoryIdle ==
    /\ data = EmptyData
    /\ top_n = 1
    /\ proc = "down"
    /\ disk = [real |-> Missing, tmp |-> Missing]
    /\ ops = 0
    /\ last = NoCall

IndexIdle ==
    /\ indexing = FALSE
    /\ index_build_started = FALSE
    /\ config = 0
    /\ engine = SearchEngine_new(<<>>)
    /\ workers = [w \in WorkerIds |-> NoWorker]
    /\ cmd = IdleCall
    /\ req = NoReq

CacheIdle ==
    /\ index_bin = Missing
    /\ scanned = NoScan

CodecIdle == codec = NewCodec("Dummy", <<84, 69, 83, 84>>, U32(1), [value |-> U32(1)])

WindowIdle ==
    /\ window_bin = Missing
    /\ loaded = NoLoad

SearchIdle == found = NoEngine

FolderIdle == listed = NoFolder

ScanIdle == tree = NoTree

UiIdle == ui = NoUi

\* The process has not started: the file is whatever an earlier run left, and
\* the shell's state is idle throughout.
InitHistory ==
    /\ data = EmptyData
    /\ top_n = 1
    /\ proc = "down"
    /\ disk \in [real : InitFiles, tmp : {Missing}]
    /\ ops = 0
    /\ last = NoCall
    /\ IndexIdle
    /\ CacheIdle
    /\ CodecIdle
    /\ WindowIdle
    /\ SearchIdle
    /\ FolderIdle
    /\ ScanIdle
    /\ UiIdle

\* main(), lines 89-127: on a first run the engine starts empty with indexing
\* set; otherwise it starts with the entries of load_or_scan. The history store
\* is left alone throughout.
InitIndex ==
    /\ config \in Configs
    /\ \E is_first_run \in BOOLEAN :
          /\ indexing = is_first_run
          /\ engine = IF is_first_run THEN SearchEngine_new(<<>>)
                      ELSE SearchEngine_new(Scan(0, config))
    /\ index_build_started = FALSE
    /\ workers = [w \in WorkerIds |-> NoWorker]
    /\ cmd = IdleCall
    /\ req = NoReq
    /\ HistoryIdle
    /\ CacheIdle
    /\ CodecIdle
    /\ WindowIdle
    /\ SearchIdle
    /\ FolderIdle
    /\ ScanIdle
    /\ UiIdle

InitCache ==
    /\ index_bin \in InitCacheFiles
    /\ scanned = NoScan
    /\ HistoryIdle
    /\ IndexIdle
    /\ CodecIdle
    /\ WindowIdle
    /\ SearchIdle
    /\ FolderIdle
    /\ ScanIdle
    /\ UiIdle

SpecCache == InitCache /\ [][NextCache]_vars

InitBinfmt ==
    /\ \E T \in PayloadTypes :
       \E magic \in Magics, version \in Versions, payload \in Payloads(T) :
          codec = NewCodec(T, magic, version, payload)
    /\ HistoryIdle
    /\ IndexIdle
    /\ CacheIdle
    /\ WindowIdle
    /\ SearchIdle
    /\ FolderIdle
    /\ ScanIdle
    /\ UiIdle

SpecBinfmt == InitBinfmt /\ [][NextBinfmt]_vars

InitWindow ==
    /\ window_bin \in InitWindowFiles
    /\ loaded = NoLoad
    /\ HistoryIdle
    /\ IndexIdle
    /\ CacheIdle
    /\ CodecIdle
    /\ SearchIdle
    /\ FolderIdle
    /\ ScanIdle
    /\ UiIdle

\* An engine built over a catalog, and a history loaded, before any search
InitSearch ==
    /\ \E entries \in Catalogs, history \in SearchHistories :
          found = [entries |-> entries, history |-> history, call |-> NoSearch]
    /\ HistoryIdle
    /\ IndexIdle
    /\ CacheIdle
    /\ CodecIdle
    /\ WindowIdle
    /\ FolderIdle
    /\ ScanIdle
    /\ UiIdle

SpecWindow == InitWindow /\ [][NextWindow]_vars

SpecSearch == InitSearch /\ [][NextSearch]_vars

\* A directory and a history, before any listing
InitFolder ==
    /\ \E dir \in Directories, history \in FolderHistories :
          listed = [dir |-> dir, history |-> history, call |-> NoList]
    /\ HistoryIdle
    /\ IndexIdle
    /\ CacheIdle
    /\ CodecIdle
    /\ WindowIdle
    /\ SearchIdle
    /\ ScanIdle
    /\ UiIdle

SpecFolder == InitFolder /\ [][NextFolder]_vars

\* A file system, before any scan
InitScan ==
    /\ \E fs \in FileSystems : tree = [fs |-> fs, call |-> NoScanAll]
    /\ HistoryIdle
    /\ IndexIdle
    /\ CacheIdle
    /\ CodecIdle
    /\ WindowIdle
    /\ SearchIdle
    /\ FolderIdle
    /\ UiIdle

SpecScan == InitScan /\ [][NextScan]_vars

\* A shell started over a history and a catalog: window.rs starts with no
\* results (main.rs 264-266), app.rs with the recent ones (app.rs 183)
InitUi ==
    /\ \E shell \in {"win32", "egui"}, h \in UiHistories, entries \in UiCatalogs :
          LET s == [NoUi EXCEPT !.shell = shell, !.history = h, !.entries = entries]
          IN  ui \in (IF shell = "win32" THEN { s } ELSE refresh_results(s))
    /\ HistoryIdle
    /\ IndexIdle
    /\ CacheIdle
    /\ CodecIdle
    /\ WindowIdle
    /\ SearchIdle
    /\ FolderIdle
    /\ ScanIdle

SpecUi == InitUi /\ [][NextUi]_vars

SpecHistory == InitHistory /\ [][NextHistory]_vars

SpecIndex == InitIndex /\ [][NextIndex]_vars

\* The build thread is an OS thread: it keeps running until it ends, and a
\* thread waiting for a lock that is released again and again gets it.
FairIndex == \A w \in WorkerIds :
    SF_vars(WorkerReadConfig(w) \/ WorkerScan(w) \/ WorkerIcons(w) \/ WorkerSwap(w)
            \/ WorkerClearFlag(w) \/ WorkerNotify(w) \/ WorkerEmit(w))

SpecIndexFair == SpecIndex /\ FairIndex /\ WF_vars(QueryRead) /\ WF_vars(QueryEnd)

---------------------------------------------------------------------------
(* Properties of the history store *)

Card(m) == Cardinality(DOMAIN m)

\* save has run to its end in the call just made
Saved == proc = "up" /\ last.outcome = "returned" /\ last.op \in {"launch", "expand"}

\* The process stopped inside save while a decodable history.bin was in place
StoppedInSave == last.outcome = "stopped" /\ ReadHistory(last.disk0) # <<>>

\* C1: if the process stops at any point of a save, history.bin still exists and
\* holds either the complete state persisted before the save or the complete
\* state the save was writing.
C1_SaveIsCrashSafe ==
    StoppedInSave => disk.real \in {last.disk0.real, last.bytes}

\* C3: right after record_launch(p, q) returns, global_count(p) is its value
\* before the call plus one (capped at u32::MAX), last_launched(p) is the
\* timestamp of the call and, for a non-empty normalize(q), query_count(q, p) is
\* its value before the call plus one.
C3_ReadSeesLaunch ==
    (proc = "up" /\ last.op = "launch" /\ last.outcome = "returned") =>
        LET p == last.path
            q == last.query
            old == query_count(last.before, q, p)
        IN  /\ global_count(data, p) = saturating_add(global_count(last.before, p), 1)
            /\ last_launched(data, p) = <<last.now>>
            /\ normalize_query(q) # <<>> =>
                  /\ ~U32Sum(old, 1).overflow
                  /\ query_count(data, q, p) = U32Sum(old, 1).limbs

C5_BothMapsBoundedIndependently ==
    Saved =>
        /\ Card(data.global) <= top_n
        /\ Card(data.folder_expansion) <= top_n
        /\ Card(last.mutated.folder_expansion) <= top_n =>
              data.folder_expansion = last.mutated.folder_expansion
        /\ Card(last.mutated.global) <= top_n =>
              data.global = last.mutated.global

\* A save that pruned folder_expansion and left a non-empty global whole.
C5_Witness ==
    /\ Saved
    /\ Card(last.mutated.folder_expansion) > top_n
    /\ Card(data.folder_expansion) = top_n
    /\ last.mutated.global # EmptyMap
    /\ data.global = last.mutated.global

\* The number of entries of a HistoryData: global entries, query-to-path tallies
\* and folder_expansion entries.
RECURSIVE SumCard(_, _)
SumCard(q, keys) ==
    IF keys = {} THEN 0
    ELSE LET k == CHOOSE x \in keys : TRUE
         IN  Card(q[k]) + SumCard(q, keys \ {k})

Size(d) == Card(d.global) + SumCard(d.query, DOMAIN d.query) + Card(d.folder_expansion)

\* What Size would be bounded by if prune kept at most top_n per-query maps of
\* at most top_n tallies each beside the two maps it does bound.
SizeBound(n) == n + n * n + n

\* C6: the data persisted by a save is bounded in size by a function of top_n
\* alone, however many distinct queries launches were recorded under.
C6_SizeBoundedByTopN ==
    Saved => Size(data) <= SizeBound(top_n)

\* C7: when global holds more than top_n entries prune leaves exactly top_n of
\* them, none with a smaller launch_count than a dropped one, and no tally of a
\* dropped path; otherwise it leaves global unchanged. With top_n = 2 and
\* counts low:1, med:5, high:10 exactly med and high remain.
C7_PruneKeepsTopN ==
    Saved =>
        LET g0 == last.mutated.global
            g1 == data.global
        IN  IF Card(g0) > top_n
            THEN /\ Card(g1) = top_n
                 /\ DOMAIN g1 \subseteq DOMAIN g0
                 /\ g1 = Restrict(g0, DOMAIN g1)
                 /\ \A k \in DOMAIN g1 : \A j \in (DOMAIN g0) \ (DOMAIN g1) :
                       U32Geq(g0[k].launch_count, g0[j].launch_count)
                 /\ \A k \in DOMAIN data.query :
                       DOMAIN data.query[k] \cap ((DOMAIN g0) \ (DOMAIN g1)) = {}
                 /\ \A k \in DOMAIN last.mutated.query :
                       \A p \in (DOMAIN last.mutated.query[k]) \cap DOMAIN g1 :
                          /\ k \in DOMAIN data.query
                          /\ p \in DOMAIN data.query[k]
                          /\ data.query[k][p] = last.mutated.query[k][p]
                 /\ ( /\ top_n = 2
                      /\ DOMAIN g0 = {"low", "med", "high"}
                      /\ g0["low"].launch_count = U32(1)
                      /\ g0["med"].launch_count = U32(5)
                      /\ g0["high"].launch_count = U32(10) )
                    => DOMAIN g1 = {"med", "high"}
            ELSE g1 = g0

\* The pruning pass of the example: top_n = 2 and counts low:1, med:5, high:10.
C7_Witness ==
    /\ Saved
    /\ top_n = 2
    /\ DOMAIN last.mutated.global = {"low", "med", "high"}
    /\ last.mutated.global["low"].launch_count = U32(1)
    /\ last.mutated.global["med"].launch_count = U32(5)
    /\ last.mutated.global["high"].launch_count = U32(10)
    /\ <<"a", " ", "b">> \in DOMAIN last.mutated.query
    /\ DOMAIN data.global = {"med", "high"}

\* C8: incrementing a launch_count, a per-query tally or a folder_expansion
\* count that holds u32::MAX leaves it at u32::MAX, and the call does not abort.
C8_CountersSaturate ==
    /\ last.outcome # "panicked"
    /\ (Saved /\ last.op = "launch") =>
          LET p == last.path
              k == normalize_query(last.query)
          IN  /\ (global_count(last.before, p) = U32Max /\ p \in DOMAIN data.global)
                    => global_count(data, p) = U32Max
              /\ (query_count(last.before, k, p) = U32Max /\ k # <<>>
                    /\ p \in DOMAIN data.global)
                    => query_count(data, k, p) = U32Max
    /\ (Saved /\ last.op = "expand") =>
          ( (folder_expansion_count(last.before, last.path) = U32Max
              /\ last.path \in DOMAIN data.folder_expansion)
            => folder_expansion_count(data, last.path) = U32Max )

\* load has returned after finding no decodable history.bin
LoadedFromBadFile ==
    /\ last.op = "load"
    /\ last.outcome = "returned"
    /\ ReadHistory(last.disk0) = <<>>

\* C13: when history.bin is corrupt, shorter than the header, of another magic
\* or of an unknown version, load returns a store whose three maps are empty,
\* and, its write and rename not having failed, history.bin then decodes to
\* the empty history.
C13_LoadReplacesBadFile ==
    LoadedFromBadFile =>
        /\ proc = "up"
        /\ data = EmptyData
        /\ last.io_ok => ReadHistory(disk) = <<EmptyData>>

\* load found a file that is there but does not decode, and replaced it
C13_Witness ==
    /\ LoadedFromBadFile
    /\ last.disk0.real.kind = "file"
    /\ last.io_ok
    /\ disk.real = HistoryBytes(EmptyData)
    /\ data = EmptyData

\* record_launch or record_folder_expansion has returned although the write or
\* the rename of its save failed
ReturnedWithoutSaving ==
    /\ last.op \in {"launch", "expand"}
    /\ last.outcome = "returned"
    /\ ~last.io_ok

\* C14: when a file operation of save fails, record_launch and
\* record_folder_expansion return all the same, and the store then holds what
\* a successful save would have left in it: the pruned result of the update.
C14_FailedSaveKeepsMemory ==
    ReturnedWithoutSaving =>
        /\ proc = "up"
        /\ data \in prune(last.mutated, top_n)
        /\ last.op = "launch" =>
              LET m == record_launch_mutate(last.before, last.path, last.query,
                                            last.now)
              IN  m.overflow \/ last.mutated = m.data
        /\ last.op = "expand" =>
              LET m == record_folder_expansion_mutate(last.before, last.path)
              IN  m.overflow \/ last.mutated = m.data

\* A launch was counted in memory while history.bin stayed as it was
C14_Witness ==
    /\ ReturnedWithoutSaving
    /\ last.op = "launch"
    /\ data # last.before
    /\ global_count(data, last.path) # global_count(last.before, last.path)
    /\ ReadHistory(disk) = <<last.before>>

---------------------------------------------------------------------------
(* Properties of the index build *)

\* C2, as stated: at most one index-build thread is alive at any time, and a
\* request made while a build is in flight spawns nothing.
C2_OneWorkerThread ==
    /\ Cardinality(Alive) <= 1
    /\ req.in_flight => ~req.spawned

\* C2, as the code has it: at most one index-build thread is between its spawn
\* and its indexing.store(false) at any time (a thread that has stored false may
\* still be sending its notifications when the next one is spawned), and a
\* request made while a build is in flight spawns nothing.
C2_OneBuildInFlight ==
    /\ Cardinality(InFlight) <= 1
    /\ req.in_flight => ~req.spawned

\* rebuild_index was called while a build was in flight and returned without
\* spawning; the build is still the only one.
C2_Witness ==
    /\ req.op = "rebuild_index"
    /\ req.in_flight
    /\ ~req.spawned
    /\ Cardinality(InFlight) = 1
    /\ Cardinality(Spawned) = 1

\* The engine holds the entries of a scan made under the current settings.
Indexed == engine.entries # <<>> /\ engine.entries[1].config = config

\* save_config changed the scan settings while a build was in flight.
ChangedInFlight == req.op = "save_config" /\ req.changed /\ req.in_flight

\* C9: when save_config changes the scan settings while a build is in flight,
\* the engine eventually holds the entries of a scan made under the settings in
\* force, with no further request needed.
C9_ChangeIsIndexed == ChangedInFlight ~> Indexed

\* A list is the complete result of one scan, or the empty list the engine is
\* constructed with on a first run.
IsSnapshot(l) ==
    \/ l = <<>>
    \/ \E b \in 0..MaxBuilds, c \in Configs : l = Scan(b, c)

\* C10: a search or recent_history call reads, from its first entry to its
\* last, the list the engine held when the call took the lock; that list is
\* the complete result of one scan, and it is what the call has read when it
\* returns. The engine never holds anything but such a list.
C10_QueriesSeeOneSnapshot ==
    /\ IsSnapshot(engine.entries)
    /\ cmd.pc \in {"reading", "returned"} =>
          /\ IsSnapshot(cmd.locked)
          /\ Len(cmd.seen) <= Len(cmd.locked)
          /\ \A k \in 1..Len(cmd.seen) : cmd.seen[k] = cmd.locked[k]
    /\ cmd.pc = "reading" => cmd.locked = engine.entries
    /\ cmd.pc = "returned" => cmd.seen = cmd.locked

\* A call began after a build thread had finished its scan and returned the
\* previous list, all of it, before the thread swapped the engine.
C10_Witness ==
    /\ cmd.pc = "returned"
    /\ cmd.seen = engine.entries
    /\ cmd.seen # <<>>
    /\ \E w \in WorkerIds :
          /\ workers[w].pc \in {"icons", "swap"}
          /\ workers[w].entries # cmd.seen

---------------------------------------------------------------------------
(* Properties of the index cache *)

\* The cache one call's scan produces
CacheOf(call) ==
    IndexCache(INDEX_CACHE_VERSION, call.now, call.entries,
               compute_config_hash(call.rules))

C12_ChangedIffCacheDiffers ==
    scanned.op = "load_or_scan" =>
        /\ scanned.returned = scanned.entries
        /\ scanned.changed <=>
              \/ scanned.before.kind # "file"
              \/ ReadCache(scanned.before) = <<>>
              \/ LET cache == ReadCache(scanned.before)[1]
                 IN  \/ cache.version # INDEX_CACHE_VERSION
                     \/ cache.config_hash # compute_config_hash(scanned.rules)
                     \/ Len(cache.entries) # Len(scanned.entries)
                     \/ \E k \in 1..Len(cache.entries) :
                           k <= Len(scanned.entries) /\
                           <<cache.entries[k].name, cache.entries[k].target_path,
                             cache.entries[k].is_folder>>
                           # <<scanned.entries[k].name,
                               scanned.entries[k].target_path,
                               scanned.entries[k].is_folder>>

\* A call returned changed = true only because the cached list was a proper
\* prefix of the scanned one
C12_Witness ==
    /\ scanned.op = "load_or_scan"
    /\ scanned.changed
    /\ ReadCache(scanned.before) # <<>>
    /\ LET cache == ReadCache(scanned.before)[1]
       IN  /\ cache.version = INDEX_CACHE_VERSION
           /\ cache.config_hash = compute_config_hash(scanned.rules)
           /\ Len(cache.entries) < Len(scanned.entries)
           /\ Len(cache.entries) > 0
           /\ \A k \in 1..Len(cache.entries) : cache.entries[k] = scanned.entries[k]

---------------------------------------------------------------------------
(* Properties of the envelope *)

\* C15: the bytes serialize_with_header returns for (m, v, x), decoded under
\* the same m and v, give Some(x).
C15_RoundTrip ==
    (/\ codec.pc = "decoded"
     /\ codec.intact
     /\ codec.with_magic = codec.magic
     /\ codec.with_version = codec.version)
    => codec.out = <<codec.payload>>

\* A placement state with a negative coordinate and an absent field, written
\* under a version that fills all four version bytes, came back whole
C15_Witness ==
    /\ codec.pc = "decoded"
    /\ codec.intact
    /\ codec.T = "WindowPlacementState"
    /\ codec.version = U32Max
    /\ codec.payload.search = <<<<-1, 70000>>>>
    /\ codec.payload.settings = <<>>
    /\ codec.out = <<codec.payload>>

\* C16: deserialize_with_header returns None for a buffer shorter than 8
\* bytes, for one whose first four bytes are not the expected magic, for one
\* whose bytes 4..8 are not the expected version in little-endian order, and
\* for one whose payload does not decode; the bytes encoded under (m, v) give
\* None under another magic and under another version.
C16_MismatchIsNone ==
    codec.pc = "decoded" =>
        /\ Len(codec.bytes) < 8 => codec.out = <<>>
        /\ codec.intact /\ codec.with_magic # codec.magic => codec.out = <<>>
        /\ codec.intact /\ codec.with_version # codec.version => codec.out = <<>>
        /\ (/\ codec.damaged_at \in 1..8
            /\ codec.with_magic = codec.magic
            /\ codec.with_version = codec.version) => codec.out = <<>>
        /\ (/\ Len(codec.bytes) >= 8
            /\ \E k \in 1..4 : codec.bytes[k] # codec.with_magic[k])
           => codec.out = <<>>
        /\ (/\ Len(codec.bytes) >= 8
            /\ \E k \in 1..4 :
                  codec.bytes[4 + k] # to_le_bytes(codec.with_version)[k])
           => codec.out = <<>>
        /\ (/\ Len(codec.bytes) >= 8
            /\ bincode_deserialize(codec.T,
                   SubSeq(codec.bytes, 9, Len(codec.bytes))) = <<>>)
           => codec.out = <<>>

\* The bytes written under version 1 were read under version 2 and gave None
C16_Witness ==
    /\ codec.pc = "decoded"
    /\ codec.intact
    /\ codec.with_magic = codec.magic
    /\ codec.version = U32(1)
    /\ codec.with_version = U32(2)
    /\ codec.out = <<>>

---------------------------------------------------------------------------
(* Properties of the window placement file *)

V3States ==
    { WindowPlacementState(a, b, c)
      : <<a, b, c>> \in OptPlacements \X OptPlacements
                        \X ({<<>>} \cup { <<z>> : z \in WindowSizes }) }

\* C17: load_state gives a version-3 file back unchanged, a version-2 file with
\* its search and settings and no settings_size, a version-1 file with search
\* set to the stored placement and neither settings nor settings_size, and
\* nothing for a file that is of none of the three versions.
C17_MigrationChain ==
    loaded.op = "load_state" =>
        /\ \A x \in V3States :
              loaded.file = WindowFile("WindowPlacementState", WINDOW_VERSION_V3, x)
              => loaded.result = <<x>>
        /\ \A x \in V2States :
              loaded.file = WindowFile("WindowPlacementStateV2", WINDOW_VERSION_V2, x)
              => /\ loaded.result # <<>>
                 /\ loaded.result[1].search = x.search
                 /\ loaded.result[1].settings = x.settings
                 /\ loaded.result[1].settings_size = <<>>
        /\ \A pl \in Placements :
              loaded.file = WindowFile("WindowPlacement", WINDOW_VERSION_V1, pl)
              => loaded.result = <<WindowPlacementState(<<pl>>, <<>>, <<>>)>>
        /\ (\/ loaded.file.kind # "file"
            \/ Len(loaded.file.bytes) < 8
            \/ SubSeq(loaded.file.bytes, 1, 4) # WINDOW_MAGIC
            \/ SubSeq(loaded.file.bytes, 5, 8) \notin
                  { <<1, 0, 0, 0>>, <<2, 0, 0, 0>>, <<3, 0, 0, 0>> })
           => loaded.result = <<>>

\* A version-2 file with both placements was loaded
C17_Witness ==
    /\ loaded.op = "load_state"
    /\ loaded.file = WindowFile("WindowPlacementStateV2", WINDOW_VERSION_V2,
                                [search |-> <<<<-1, 70000>>>>,
                                 settings |-> <<<<0, 0>>>>])
    /\ loaded.result = <<WindowPlacementState(<<<<-1, 70000>>>>, <<<<0, 0>>>>, <<>>)>>

---------------------------------------------------------------------------
(* Properties of search *)

Searched == found.call.op = "search"

NormQuery == normalize_query(found.call.query)

Min(a, b) == IF a <= b THEN a ELSE b

\* Whether the query matches a text under the mode of the call
QueryMatches(text) ==
    match_score_single_cached(found.call.mode, to_lowercase(text), NormQuery) # <<>>

QueryScore(text) ==
    match_score_single_cached(found.call.mode, to_lowercase(text), NormQuery)[1]

QueryHasDot == \E i \in 1..Len(NormQuery) : NormQuery[i] = "."

\* The entry's file name takes part: the query has a '.', and there is one
FileNameCounts(entry) == QueryHasDot /\ file_name(entry.target_path) # <<>>

FileNameMatches(entry) ==
    FileNameCounts(entry) /\ QueryMatches(file_name(entry.target_path)[1])

EntryMatches(entry) == QueryMatches(entry.name) \/ FileNameMatches(entry)

\* The higher of the scores of the texts that match
HigherScore(entry) ==
    IF QueryMatches(entry.name) /\ FileNameMatches(entry)
    THEN Max(QueryScore(entry.name), QueryScore(file_name(entry.target_path)[1]))
    ELSE IF QueryMatches(entry.name) THEN QueryScore(entry.name)
    ELSE QueryScore(file_name(entry.target_path)[1])

\* The positions in the catalog of the entries that match
Matching == { i \in 1..Len(found.entries) : EntryMatches(found.entries[i]) }

IsSSP(entry, file) == entry.name = <<"S", "S", "P">> /\ file_name(entry.target_path) = <<file>>

\* C20: search returns an empty list whenever the normalized query is empty,
\* for every catalog, history, mode and max_results.
C20_EmptyQueryFindsNothing ==
    (Searched /\ NormQuery = <<>>) => found.call.results = <<>>

\* A whitespace-only query against a catalog with entries, with room for results
C20_Witness ==
    /\ Searched
    /\ NormQuery = <<>>
    /\ found.call.query # <<>>
    /\ found.entries # <<>>
    /\ found.call.max_results > 0

\* C19: with a '.' in the normalized query an entry matches iff the query
\* matches its lowercase name or the lowercase file name of its target path,
\* and its base score is the higher of the two; without a '.', only the name
\* is matched. In Prefix mode, SSP with target SSP.exe is the single hit for
\* "ssp.exe", and SSP with target SSP.lnk gives no hit.
C19_ExtensionAwareMatching ==
    (Searched /\ NormQuery # <<>>) =>
        /\ \A i \in 1..Len(found.entries) :
              LET entry == found.entries[i]
                  base == BaseScore(found.call.mode, entry, NormQuery)
              IN  /\ (base # <<>>) <=> EntryMatches(entry)
                  /\ base # <<>> => base[1] = HigherScore(entry)
                  /\ ~QueryHasDot => ((base # <<>>) <=> QueryMatches(entry.name))
        /\ \A k \in 1..Len(found.call.results) :
              \E i \in Matching : found.call.results[k] = SearchResult(found.entries[i])
        /\ Len(found.call.results) = Min(found.call.max_results, Cardinality(Matching))
        /\ ( /\ found.call.mode = "Prefix"
             /\ NormQuery = <<"s", "s", "p", ".", "e", "x", "e">>
             /\ found.call.max_results >= 1
             /\ Len(found.entries) = 1 )
           => /\ IsSSP(found.entries[1], <<"S", "S", "P", ".", "e", "x", "e">>)
                    => found.call.results = <<SearchResult(found.entries[1])>>
              /\ IsSSP(found.entries[1], <<"S", "S", "P", ".", "l", "n", "k">>)
                    => found.call.results = <<>>

\* A query with a '.' found an entry through its file name alone
C19_Witness ==
    /\ Searched
    /\ QueryHasDot
    /\ \E i \in 1..Len(found.entries) :
          /\ ~QueryMatches(found.entries[i].name)
          /\ FileNameMatches(found.entries[i])
          /\ \E k \in 1..Len(found.call.results) :
                found.call.results[k] = SearchResult(found.entries[i])

\* The combined score of the entry at position i of the catalog
Combined(i) ==
    LET entry == found.entries[i]
    IN  HigherScore(entry)
          + 5 * AsI64(global_count(found.history, entry.target_path))
          + 20 * AsI64(query_count(found.history, NormQuery, entry.target_path))
          + (IF entry.is_folder
             THEN 5 * AsI64(folder_expansion_count(found.history, entry.target_path))
             ELSE 0)

\* When the entry was last launched; never launched is the oldest time
LastLaunched(i) ==
    LET t == last_launched(found.history, found.entries[i].target_path)
    IN  IF t = <<>> THEN 0 ELSE t[1]

\* The entry at position i ranks strictly before the one at position j
RanksBefore(i, j) ==
    \/ Combined(i) > Combined(j)
    \/ /\ Combined(i) = Combined(j)
       /\ \/ LastLaunched(i) > LastLaunched(j)
          \/ /\ LastLaunched(i) = LastLaunched(j)
             /\ StrCmp(to_lowercase(found.entries[i].name),
                       to_lowercase(found.entries[j].name)) < 0

\* C18: search returns the first max_results of the matching entries ordered
\* by combined score descending (base + 5 * global count + 20 * query count
\* + 5 * folder expansion count for a folder), then by more recent
\* last_launched, then by lowercase name ascending; an entry with no base
\* score never appears.
C18_RankedResults ==
    (Searched /\ NormQuery # <<>>) =>
        LET n == Len(found.call.results)
        IN  /\ n = Min(found.call.max_results, Cardinality(Matching))
            /\ \E at \in [1..n -> Matching] :
                  /\ \A k, l \in 1..n : k # l => at[k] # at[l]
                  /\ \A k \in 1..n :
                        found.call.results[k] = SearchResult(found.entries[at[k]])
                  /\ \A k, l \in 1..n : k < l => ~RanksBefore(at[l], at[k])
                  /\ \A j \in Matching :
                        (\A k \in 1..n : at[k] # j) =>
                            \A k \in 1..n : ~RanksBefore(j, at[k])

\* A search cut off at max_results, where two neighbours have the same
\* combined score and the more recently launched one comes first, and where
\* the history put an entry ahead of one with a higher base score
C18_Witness ==
    /\ Searched
    /\ NormQuery # <<>>
    /\ Len(found.call.results) >= 2
    /\ Len(found.call.results) < Cardinality(Matching)
    /\ \E i, j \in Matching :
          /\ Combined(i) = Combined(j)
          /\ LastLaunched(i) > LastLaunched(j)
          /\ found.call.results[1] = SearchResult(found.entries[i])
          /\ found.call.results[2] = SearchResult(found.entries[j])
    /\ \E i, j \in Matching :
          /\ HigherScore(found.entries[i]) < HigherScore(found.entries[j])
          /\ Combined(i) > Combined(j)
          /\ found.call.results[1] = SearchResult(found.entries[i])

\* The time of the last launch of a result's path
LaunchedAt(result) == found.history.global[result.path].last_launched

\* C21: recent_history returns at most max_results results, each an entry of
\* the catalog, the more recently launched first; launched paths that are not
\* in the catalog are left out and give no error.
C21_RecentHistory ==
    found.call.op = "recent" =>
        /\ Len(found.call.results) <= found.call.max_results
        /\ \A k \in 1..Len(found.call.results) :
              /\ \E i \in 1..Len(found.entries) :
                    found.call.results[k] = SearchResult(found.entries[i])
              /\ found.call.results[k].path \in DOMAIN found.history.global
              /\ ~found.call.results[k].is_error
        /\ \A k, l \in 1..Len(found.call.results) :
              k < l => LaunchedAt(found.call.results[k]) >= LaunchedAt(found.call.results[l])

\* Two entries launched at different times come back, and a launched path
\* that is not in the catalog does not
C21_Witness ==
    /\ found.call.op = "recent"
    /\ Len(found.call.results) = 2
    /\ LaunchedAt(found.call.results[1]) > LaunchedAt(found.call.results[2])
    /\ \E p \in DOMAIN found.history.global :
          \A i \in 1..Len(found.entries) : found.entries[i].target_path # p

---------------------------------------------------------------------------
(* Properties of list_folder *)

---------------------------------------------------------------------------
(* Properties of scan_all *)

\* The entries scan_directory_lnk comes across, in order, duplicates included
RECURSIVE WalkLnk(_, _)
WalkLnk(dir, items) ==
    IF items = <<>> THEN <<>>
    ELSE LET item == Head(items)
         IN  (IF item.is_dir THEN WalkLnk(ItemPath(dir, item), item.children)
              ELSE IF item.ext = <<lnk>> THEN <<parse_lnk(dir, item)>>
              ELSE <<>>)
             \o WalkLnk(dir, Tail(items))

\* The entries scan_directory_with_extensions comes across, in order,
\* duplicates included
RECURSIVE WalkExt(_, _, _, _)
WalkExt(dir, items, extensions, include_folders) ==
    IF items = <<>> THEN <<>>
    ELSE LET item == Head(items)
             path == ItemPath(dir, item)
         IN  (IF item.is_dir
              THEN (IF include_folders THEN <<AppEntry(item.stem, path, TRUE)>> ELSE <<>>)
                   \o WalkExt(path, item.children, extensions, include_folders)
              ELSE IF /\ item.ext # <<>>
                      /\ (<<".">> \o to_lowercase(item.ext[1])) \in extensions
              THEN <<AppEntry(item.stem, path, FALSE)>>
              ELSE <<>>)
             \o WalkExt(dir, Tail(items), extensions, include_folders)

RECURSIVE WalkLnkRoots(_, _)
WalkLnkRoots(fs, roots) ==
    IF roots = <<>> THEN <<>>
    ELSE WalkLnk(<<Head(roots)>>, RootItems(fs, Head(roots)))
            \o WalkLnkRoots(fs, Tail(roots))

RECURSIVE WalkScanPaths(_, _)
WalkScanPaths(fs, scan_paths) ==
    IF scan_paths = <<>> THEN <<>>
    ELSE WalkExt(<<Head(scan_paths).path>>, RootItems(fs, Head(scan_paths).path),
                 { to_lowercase(e) : e \in Head(scan_paths).extensions },
                 Head(scan_paths).include_folders)
            \o WalkScanPaths(fs, Tail(scan_paths))

\* Every candidate of the scan of the last call, in scan order
Candidates ==
    WalkLnkRoots(tree.fs, tree.call.lnk_roots)
        \o WalkScanPaths(tree.fs, tree.call.scan_paths)

SameName(a, b) ==
    a.is_folder = b.is_folder /\ to_lowercase(a.name) = to_lowercase(b.name)

\* The positions of the candidates that no earlier candidate has the name of
FirstPositions ==
    { k \in 1..Len(Candidates) :
        \A j \in 1..(k - 1) : ~SameName(Candidates[j], Candidates[k]) }

\* C23: in the output of one scan no two file entries and no two folder
\* entries share a lowercase name; of the candidates with one name the first
\* in scan order is kept; a file and a folder of the same name are both kept.
C23_ScanDeduplicates ==
    tree.call.op = "scan_all" =>
        LET entries == tree.call.entries
        IN  /\ \A i, j \in 1..Len(entries) :
                  i # j => ~SameName(entries[i], entries[j])
            /\ Len(entries) = Cardinality(FirstPositions)
            /\ \A k \in FirstPositions :
                  \E i \in 1..Len(entries) :
                      /\ entries[i] = Candidates[k]
                      /\ i = Cardinality({ j \in FirstPositions : j <= k })

\* A scan over two rules that dropped a later candidate and kept a file and a
\* folder of the same name
C23_Witness ==
    /\ tree.call.op = "scan_all"
    /\ Len(tree.call.scan_paths) = 2
    /\ Len(tree.call.entries) < Len(Candidates)
    /\ \E i, j \in 1..Len(tree.call.entries) :
          /\ tree.call.entries[i].is_folder
          /\ ~tree.call.entries[j].is_folder
          /\ to_lowercase(tree.call.entries[i].name) = to_lowercase(tree.call.entries[j].name)

---------------------------------------------------------------------------
(* Properties of normalize_query *)

\* char::is_uppercase on the characters of the model. "U+1D400" stands for
\* MATHEMATICAL BOLD CAPITAL A, an uppercase letter with no lowercase form:
\* char::to_lowercase gives it back unchanged.
IsUppercase(ch) == ch \in {"A", "B", "S", "P", "E", "X", "U+1D400"}

\* No whitespace at either end, and every whitespace character is one space
\* between two characters that are not whitespace
SingleSpaced(str) ==
    \A i \in 1..Len(str) :
        IsWhitespace(str[i]) =>
            /\ str[i] = " "
            /\ 1 < i /\ i < Len(str)
            /\ ~IsWhitespace(str[i - 1])
            /\ ~IsWhitespace(str[i + 1])

\* C24 as stated: the normalized query has no whitespace at its ends, only
\* single spaces inside, no uppercase character, and normalizing it again
\* changes nothing.
C24_NoUppercase ==
    Searched =>
        /\ SingleSpaced(NormQuery)
        /\ \A i \in 1..Len(NormQuery) : ~IsUppercase(NormQuery[i])
        /\ normalize_query(NormQuery) = NormQuery

\* C24, amended: the normalized query has no whitespace at its ends, only
\* single spaces inside, no character that lowercasing changes, and
\* normalizing it again changes nothing.
C24_LowercaseStable ==
    Searched =>
        /\ SingleSpaced(NormQuery)
        /\ \A i \in 1..Len(NormQuery) : ToLowercase(NormQuery[i]) = NormQuery[i]
        /\ normalize_query(NormQuery) = NormQuery

\* A query with whitespace at both ends, a run of whitespace inside and an
\* uppercase letter
C24_Witness ==
    /\ Searched
    /\ Len(found.call.query) > 2
    /\ IsWhitespace(found.call.query[1])
    /\ IsWhitespace(found.call.query[Len(found.call.query)])
    /\ \E i \in 1..(Len(found.call.query) - 1) :
          /\ 1 < i
          /\ IsWhitespace(found.call.query[i])
          /\ IsWhitespace(found.call.query[i + 1])
          /\ i + 1 < Len(found.call.query) - 1
    /\ \E i \in 1..Len(found.call.query) :
          ToLowercase(found.call.query[i]) # found.call.query[i]
    /\ NormQuery # found.call.query

\* The query map's tally of a path under a key, None when there is none
QueryTally(d, k, path) ==
    IF k \in DOMAIN d.query /\ path \in DOMAIN d.query[k] THEN <<d.query[k][path]>> ELSE <<>>

ActivatesErrorRow ==
    /\ ui'.last.op = "activate"
    /\ ui.shown
    /\ ui'.last.arg < Len(ui.results)
    /\ ui.results[ui'.last.arg + 1].is_error

\* C26: activating a selected row whose is_error flag is true never invokes the
\* launcher, never records a launch or a folder expansion in history, and leaves
\* the search window shown.
C26_ErrorRowIsInert ==
    [][ActivatesErrorRow =>
          /\ ui'.launches = ui.launches
          /\ ui'.history = ui.history
          /\ ui'.shown]_vars

\* C26, amended: the same, the window staying shown unless the text of the edit
\* box is the settings command, in which case the settings window opens and the
\* search window is hidden.
C26_ErrorRowNeverLaunches ==
    [][ActivatesErrorRow =>
          /\ ui'.launches = ui.launches
          /\ ui'.history = ui.history
          /\ IF normalize_query(ui.query) = <<"/", "o">>
             THEN ui'.settings_open /\ ~ui'.shown
             ELSE ui'.shown /\ ui' = [ui EXCEPT !.last = ui'.last]]_vars

\* An error row was activated with a text that is no command: the window is
\* still shown with the row selected (any other row's activation hides it)
C26_Witness ==
    /\ ui.last.op = "activate"
    /\ ui.shown
    /\ ui.last.arg = ui.selected
    /\ ui.selected < Len(ui.results)
    /\ ui.results[ui.selected + 1].is_error
    /\ normalize_query(ui.query) # <<"/", "o">>

\* C27: leaving folder mode leaves folder_state absent and the query text, the
\* result list and the selected index equal to the values they had when folder
\* mode was first entered.
C27_ExitRestoresSearch ==
    [][(ui'.last.op = "escape" /\ ui.folder_state # <<>>) =>
          /\ ui'.folder_state = <<>>
          /\ ui'.query = ui.snapshot[1].query
          /\ ui'.results = ui.snapshot[1].results
          /\ ui'.selected = ui.snapshot[1].selected]_vars

\* C28: the selected index is a position of the result list, and 0 when the
\* list is empty.
C28_SelectedInRange ==
    IF ui.results = <<>> THEN ui.selected = 0 ELSE ui.selected < Len(ui.results)

\* The selection moved down to the last row of a list of several
C28_Witness ==
    /\ ui.last.op = "down"
    /\ Len(ui.results) > 1
    /\ ui.selected = Len(ui.results) - 1

\* The first run before its index build: initial indexing is pending
FirstRunPending == indexing /\ ~index_build_started

\* A step that starts a build thread
StartsBuild == Spawned' # Spawned

\* C29: on first run a settings-close event or a save_config call starts the
\* initial index build, and exactly one initial build is started: the pending
\* state holds no build, the first of these handlers starts one and ends the
\* pending state, the pending state never comes back, and afterwards a build is
\* started only as a reindex (a save_config that changed the scan settings, or
\* rebuild_index) while no build is running.
C29_OneInitialBuild ==
    [][/\ FirstRunPending => Spawned = {}
       /\ (FirstRunPending /\ req'.op \in {"settings_close", "save_config"}) =>
             /\ StartsBuild
             /\ Cardinality(Spawned') = 1
             /\ req'.spawned
             /\ indexing' /\ index_build_started'
       /\ ~FirstRunPending => ~FirstRunPending'
       /\ (StartsBuild /\ ~FirstRunPending) =>
             /\ ~indexing
             /\ InFlight = {}
             /\ \/ req'.op = "rebuild_index"
                \/ req'.op = "save_config" /\ req'.changed]_vars

\* The initial build is running, started on first run, and a later
\* settings-close event or save_config call has not started a second one
C29_Witness ==
    /\ req.op \in {"settings_close", "save_config"}
    /\ ~req.spawned
    /\ req.in_flight
    /\ Cardinality(Spawned) = 1
    /\ engine.entries = <<>>
    /\ indexing

\* The build started last
LastBuild == CHOOSE w \in Spawned : \A v \in Spawned : v <= w

\* The engine holds the entries build w scanned, or those of a build started
\* after it
EngineHasBuild(w) ==
    /\ engine.entries # <<>>
    /\ engine.entries[1].scan >= w
    /\ engine.entries = workers[engine.entries[1].scan].entries

\* C30: every build that is started eventually stores indexing = false, and
\* only after the engine was replaced with its entries: while indexing is false
\* the engine holds the entries of the build started last, and when a build
\* emits indexing-complete the engine holds that build's entries, or those of a
\* build started after it that has replaced them since.
C30_FlagClearedAfterSwap ==
    /\ \A w \in WorkerIds :
          (workers[w].pc \in BuildPcs) ~> (workers[w].pc \in TailPcs \cup {"done"})
    /\ []((Spawned # {} /\ ~indexing) =>
             /\ engine.entries = workers[LastBuild].entries
             /\ workers[LastBuild].pc \in TailPcs \cup {"done"})
    /\ [][\A w \in WorkerIds :
             /\ (workers[w].pc = "flag" /\ workers'[w].pc = "notify") =>
                   /\ ~indexing'
                   /\ engine.entries = workers[w].entries
             /\ (workers[w].pc = "emit" /\ workers'[w].pc = "done") =>
                   EngineHasBuild(w)]_vars

\* A build has emitted indexing-complete: the flag is false and the engine
\* holds what it scanned
C30_Witness ==
    /\ Spawned # {}
    /\ workers[LastBuild].pc = "done"
    /\ ~indexing
    /\ engine.entries = workers[LastBuild].entries
    /\ engine.entries # <<>>

====
